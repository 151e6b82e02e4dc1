---------------------------- MODULE LookupsProofs ----------------------------
(***************************************************************************)
(* Proofs about lookups: what Lookups answers is what was asked for and    *)
(* what is there, and LookupStats counts every lookup once, for any        *)
(* requests, fingerprints and tracks, any number of counters and workers.  *)
(***************************************************************************)
EXTENDS Lookups, LookupStats, Sums, SequenceTheorems

-----------------------------------------------------------------------------
(* Sets in order *)

\* R orders the elements of S, one before the other.
Orders(R, S) ==
  /\ \A x \in S : <<x, x>> \notin R
  /\ \A x, y \in S : x # y => <<x, y>> \in R \/ <<y, x>> \in R
  /\ \A x, y, z \in S : <<x, y>> \in R /\ <<y, z>> \in R => <<x, z>> \in R

Below(S, R, x) == {y \in S : <<y, x>> \in R}

\* What is below x in S is less than what is below one that x is below.
LEMMA BelowGrows ==
  ASSUME NEW S, IsFiniteSet(S), NEW R, Orders(R, S),
         NEW x \in S, NEW y \in S, <<x, y>> \in R
  PROVE  Cardinality(Below(S, R, x)) < Cardinality(Below(S, R, y))
<1>1. Below(S, R, x) \subseteq Below(S, R, y) /\ Below(S, R, y) \subseteq S
  BY DEF Below, Orders
<1>2. x \in Below(S, R, y) /\ x \notin Below(S, R, x)
  BY DEF Below, Orders
<1>3. IsFiniteSet(Below(S, R, y)) /\ IsFiniteSet(Below(S, R, x))
  BY <1>1, FS_Subset
<1>4. /\ Cardinality(Below(S, R, x)) \in Nat /\ Cardinality(Below(S, R, y)) \in Nat
      /\ Cardinality(Below(S, R, x)) <= Cardinality(Below(S, R, y))
      /\ Cardinality(Below(S, R, x)) # Cardinality(Below(S, R, y))
  BY <1>1, <1>2, <1>3, FS_Subset, FS_CardinalityType
<1>5. QED BY <1>4

\* An element has fewer elements below it than the set has.
LEMMA BelowIsPart ==
  ASSUME NEW S, IsFiniteSet(S), NEW R, Orders(R, S), NEW x \in S
  PROVE  /\ Cardinality(Below(S, R, x)) \in Nat
         /\ Cardinality(Below(S, R, x)) < Cardinality(S)
<1>1. Below(S, R, x) \subseteq S /\ x \notin Below(S, R, x)
  BY DEF Below, Orders
<1>2. IsFiniteSet(Below(S, R, x))
  BY <1>1, FS_Subset
<1>3. /\ Cardinality(Below(S, R, x)) \in Nat /\ Cardinality(S) \in Nat
      /\ Cardinality(Below(S, R, x)) <= Cardinality(S)
      /\ Cardinality(Below(S, R, x)) # Cardinality(S)
  BY <1>1, <1>2, FS_Subset, FS_CardinalityType
<1>4. QED BY <1>3

\* Each place is taken: elements have different numbers of elements below them,
\* and as many numbers are possible as there are elements.
LEMMA PlacesTaken ==
  ASSUME NEW S, IsFiniteSet(S), NEW R, Orders(R, S), NEW n \in 1 .. Cardinality(S)
  PROVE  \E x \in S : Cardinality(Below(S, R, x)) = n - 1
<1> DEFINE T == 1 .. Cardinality(S)
           f == [x \in S |-> Cardinality(Below(S, R, x)) + 1]
<1>1. Cardinality(S) \in Nat
  BY FS_CardinalityType
<1>2. IsFiniteSet(T) /\ Cardinality(T) = Cardinality(S)
  BY <1>1, FS_Interval
<1>3. \A x \in S : f[x] \in T
  BY <1>1, BelowIsPart
<1>4. ASSUME NEW x \in S, NEW y \in S, f[x] = f[y] PROVE x = y
  <2>1. Cardinality(Below(S, R, x)) \in Nat /\ Cardinality(Below(S, R, y)) \in Nat
    BY BelowIsPart
  <2>2. Cardinality(Below(S, R, x)) = Cardinality(Below(S, R, y))
    BY <1>4, <2>1
  <2>3. <<x, y>> \notin R /\ <<y, x>> \notin R
    BY <2>1, <2>2, BelowGrows
  <2>4. QED BY <2>3 DEF Orders
<1>5. f \in Injection(S, T)
  BY <1>3, <1>4 DEF Injection, IsInjective
<1>6. f \in Surjection(S, T)
  BY <1>2, <1>5, FS_Injection
<1>7. PICK x \in S : f[x] = n
  BY <1>6 DEF Surjection
<1>8. Cardinality(Below(S, R, x)) \in Nat
  BY BelowIsPart
<1>9. QED BY <1>7, <1>8

\* InOrder lists each element once, one after the other.
LEMMA OrderSound ==
  ASSUME NEW S, IsFiniteSet(S), NEW R, Orders(R, S)
  PROVE  /\ Cardinality(S) \in Nat
         /\ \A n \in 1 .. Cardinality(S) : InOrder(S, R)[n] \in S
         /\ \A x \in S : \E n \in 1 .. Cardinality(S) : InOrder(S, R)[n] = x
         /\ \A m, n \in 1 .. Cardinality(S) :
              m < n => <<InOrder(S, R)[m], InOrder(S, R)[n]>> \in R
<1> DEFINE at(n) == InOrder(S, R)[n]
           size(x) == Cardinality(Below(S, R, x))
<1>1. Cardinality(S) \in Nat
  BY FS_CardinalityType
<1>2. \A n \in 1 .. Cardinality(S) : at(n) = CHOOSE x \in S : size(x) = n - 1
  BY DEF InOrder, Below
<1>3. ASSUME NEW n \in 1 .. Cardinality(S)
      PROVE  at(n) \in S /\ size(at(n)) = n - 1
  <2>1. \E x \in S : size(x) = n - 1
    BY PlacesTaken
  <2>2. QED BY <1>2, <2>1
<1>4. ASSUME NEW x \in S, NEW y \in S, size(x) = size(y) PROVE x = y
  <2>1. size(x) \in Nat /\ size(y) \in Nat
    BY BelowIsPart
  <2>2. <<x, y>> \notin R /\ <<y, x>> \notin R
    BY <1>4, <2>1, BelowGrows
  <2>3. QED BY <2>2 DEF Orders
<1>5. ASSUME NEW x \in S PROVE \E n \in 1 .. Cardinality(S) : at(n) = x
  <2>1. size(x) \in Nat /\ size(x) < Cardinality(S)
    BY BelowIsPart
  <2> DEFINE n == size(x) + 1
  <2>2. n \in 1 .. Cardinality(S) /\ n - 1 = size(x)
    BY <1>1, <2>1
  <2>3. at(n) \in S /\ size(at(n)) = size(x)
    BY <1>3, <2>2
  <2>4. QED BY <1>4, <2>2, <2>3
<1>6. ASSUME NEW m \in 1 .. Cardinality(S), NEW n \in 1 .. Cardinality(S), m < n
      PROVE  <<at(m), at(n)>> \in R
  <2>1. at(m) \in S /\ at(n) \in S /\ size(at(m)) = m - 1 /\ size(at(n)) = n - 1
    BY <1>3
  <2>2. at(m) # at(n)
    BY <1>6, <2>1
  <2>3. <<at(n), at(m)>> \notin R
    <3>1. ASSUME <<at(n), at(m)>> \in R PROVE FALSE
      <4>1. size(at(n)) < size(at(m))
        BY <2>1, <3>1, BelowGrows
      <4>2. QED BY <1>6, <2>1, <4>1
    <3>2. QED BY <3>1
  <2>4. QED BY <2>1, <2>2, <2>3 DEF Orders
<1>7. QED BY <1>1, <1>3, <1>5, <1>6

\* The numbers of a finite set are ordered by size.
LEMMA NumbersOrder ==
  ASSUME NEW S, S \subseteq Int
  PROVE  Orders({p \in S \X S : p[1] < p[2]}, S)
<1> DEFINE R == {p \in S \X S : p[1] < p[2]}
<1>1. \A x, y \in S : x \in Int /\ y \in Int
  OBVIOUS
<1>2. \A x, y \in S : <<x, y>> \in R <=> x < y
  OBVIOUS
<1> HIDE DEF R
<1>3. \A x \in S : <<x, x>> \notin R
  BY <1>1, <1>2
<1>4. \A x, y \in S : x # y => <<x, y>> \in R \/ <<y, x>> \in R
  BY <1>1, <1>2
<1>5. \A x, y, z \in S : <<x, y>> \in R /\ <<y, z>> \in R => <<x, z>> \in R
  BY <1>1, <1>2
<1>6. Orders(R, S)
  BY <1>3, <1>4, <1>5 DEF Orders
<1>7. QED BY <1>6 DEF R

\* A finite set of numbers has a least and a greatest one.
LEMMA Extremes ==
  ASSUME NEW S, IsFiniteSet(S), S \subseteq Int, S # {}
  PROVE  /\ Min(S) \in S /\ \A x \in S : Min(S) <= x
         /\ Max(S) \in S /\ \A x \in S : Max(S) >= x
<1> DEFINE R == {p \in S \X S : p[1] < p[2]}
           at(n) == InOrder(S, R)[n]
           c == Cardinality(S)
<1>1. Orders(R, S)
  BY NumbersOrder
<1>2. /\ c \in Nat
      /\ \A n \in 1 .. c : at(n) \in S
      /\ \A x \in S : \E n \in 1 .. c : at(n) = x
      /\ \A m, n \in 1 .. c : m < n => <<at(m), at(n)>> \in R
  BY <1>1, OrderSound
<1> HIDE DEF at, c
<1>3. \A m, n \in 1 .. c : m < n => at(m) < at(n)
  <2>1. \A x, y \in S : <<x, y>> \in R => x < y
    OBVIOUS
  <2>2. QED BY <1>2, <2>1
<1>4. 1 \in 1 .. c /\ c \in 1 .. c
  <2>1. PICK x \in S : TRUE
    OBVIOUS
  <2>2. PICK n \in 1 .. c : at(n) = x
    BY <1>2
  <2>3. QED BY <1>2, <2>2
<1> HIDE DEF R
<1>5. at(1) \in S /\ \A x \in S : at(1) <= x
  <2>1. at(1) \in S
    BY <1>2, <1>4
  <2>2. ASSUME NEW x \in S PROVE at(1) <= x
    <3>1. PICK n \in 1 .. c : at(n) = x
      BY <1>2
    <3>2. n = 1 \/ 1 < n
      OBVIOUS
    <3>3. x \in Int /\ at(1) \in Int
      BY <2>1
    <3>4. CASE n = 1
      BY <3>1, <3>3, <3>4
    <3>5. CASE n # 1
      BY <1>3, <1>4, <3>1, <3>2, <3>3, <3>5
    <3>6. QED BY <3>4, <3>5
  <2>3. QED BY <2>1, <2>2
<1>6. at(c) \in S /\ \A x \in S : at(c) >= x
  <2>1. at(c) \in S
    BY <1>2, <1>4
  <2>2. ASSUME NEW x \in S PROVE at(c) >= x
    <3>1. PICK n \in 1 .. c : at(n) = x
      BY <1>2
    <3>2. n = c \/ n < c
      BY <1>2
    <3>3. x \in Int /\ at(c) \in Int
      BY <2>1
    <3>4. CASE n = c
      BY <3>1, <3>3, <3>4
    <3>5. CASE n # c
      BY <1>3, <1>4, <3>1, <3>2, <3>3, <3>5
    <3>6. QED BY <3>4, <3>5
  <2>3. QED BY <2>1, <2>2
<1>7. QED BY <1>5, <1>6 DEF Min, Max

\* The smaller of two numbers.
LEMMA SmallerOf ==
  ASSUME NEW a \in Int, NEW b \in Int
  PROVE  Min({a, b}) \in {a, b} /\ Min({a, b}) <= a /\ Min({a, b}) <= b
<1>1. \E x \in {a, b} : \A y \in {a, b} : x <= y
  <2>1. CASE a <= b
    BY <2>1
  <2>2. CASE b <= a
    BY <2>2
  <2>3. QED BY <2>1, <2>2
<1>2. Min({a, b}) \in {a, b} /\ \A y \in {a, b} : Min({a, b}) <= y
  BY <1>1 DEF Min
<1>3. QED BY <1>2

\* A function on the first numbers is a sequence.
LEMMA ListIsSeq ==
  ASSUME NEW S, NEW n \in Nat, NEW s \in [1 .. n -> S]
  PROVE  s \in Seq(S) /\ Len(s) = n /\ DOMAIN s = 1 .. n
OBVIOUS

-----------------------------------------------------------------------------
(* The search *)

\* What the world is like.
LEMMA WorldParts ==
  ASSUME WorldSound
  PROVE  /\ catalog.terms \in [Fps -> Nat] /\ catalog.score \in [Fps -> Nat]
         /\ track \in [Fps -> Tracks] /\ new_id \in [Tracks -> Tracks]
         /\ stored \subseteq Fps /\ indexed \subseteq stored /\ before \subseteq stored
         /\ maxDoc \in Nat /\ Fps \subseteq Nat
<1>1. Cardinality(Fps) \in Nat /\ Fps = 1 .. Cardinality(Fps)
  BY LookupsAssumption, FS_CardinalityType
<1>2. Fps \subseteq Nat
  BY <1>1
<1>3. catalog.terms \in [Fps -> Nat] /\ catalog.score \in [Fps -> Nat]
  BY LookupsAssumption DEF WorldSound
<1>4. QED BY <1>2, <1>3 DEF WorldSound

\* The order of the answer is one.
LEMMA BetterOrders ==
  ASSUME WorldSound, NEW ids, ids \subseteq Fps
  PROVE  Orders(Better, ids)
<1>1. catalog.score \in [Fps -> Nat] /\ Fps \subseteq Nat
  BY WorldParts
<1> DEFINE s(f) == catalog.score[f]
<1>2. \A f \in ids : s(f) \in Nat /\ f \in Nat
  BY <1>1
<1>3. \A f, g \in ids : <<f, g>> \in Better <=> s(f) > s(g) \/ (s(f) = s(g) /\ f < g)
  BY DEF Better
<1> HIDE DEF s
<1>4. \A f \in ids : <<f, f>> \notin Better
  BY <1>2, <1>3
<1>5. \A f, g \in ids : f # g => <<f, g>> \in Better \/ <<g, f>> \in Better
  BY <1>2, <1>3
<1>6. \A f, g, h \in ids : <<f, g>> \in Better /\ <<g, h>> \in Better => <<f, h>> \in Better
  BY <1>2, <1>3
<1>7. QED BY <1>4, <1>5, <1>6 DEF Orders

Descending(s) == \A m, n \in DOMAIN s : m < n => s[m].score >= s[n].score

\* The database answers with matches in order; for the importer with all of them.
LEMMA RankedSound ==
  ASSUME WorldSound, NEW ids, ids \subseteq Fps
  PROVE  /\ Ranked(ids) \in Seq(Match) /\ Descending(Ranked(ids))
         /\ ~ Fast => \A f \in ids : \E n \in DOMAIN Ranked(ids) : Ranked(ids)[n].id = f
<1> DEFINE c == Cardinality(ids)
           at == InOrder(ids, Better)
           size == IF Fast THEN Min({MaxResults, c}) ELSE c
           entry(n) == [id |-> at[n], track |-> track[at[n]], score |-> catalog.score[at[n]]]
<1>1. /\ catalog.score \in [Fps -> Nat] /\ Fps \subseteq Nat /\ track \in [Fps -> Tracks]
      /\ IsFiniteSet(ids)
  BY WorldParts, LookupsAssumption, FS_Subset
<1>2. /\ c \in Nat
      /\ \A n \in 1 .. c : at[n] \in ids
      /\ \A f \in ids : \E n \in 1 .. c : at[n] = f
      /\ \A m, n \in 1 .. c : m < n => <<at[m], at[n]>> \in Better
  BY <1>1, BetterOrders, OrderSound
<1>3. size \in Nat /\ size <= c /\ (~ Fast => size = c)
  <2> HIDE DEF c
  <2>1. MaxResults \in Nat /\ c \in Nat
    BY <1>2, LookupsAssumption
  <2>2. Min({MaxResults, c}) \in {MaxResults, c} /\ Min({MaxResults, c}) <= c
    BY <2>1, SmallerOf
  <2>3. CASE Fast
    BY <2>1, <2>2, <2>3
  <2>4. CASE ~ Fast
    BY <2>1, <2>4
  <2>5. QED BY <2>3, <2>4
<1>4. Ranked(ids) = [n \in 1 .. size |-> entry(n)]
  BY DEF Ranked
<1>5. \A f, g \in ids : <<f, g>> \in Better => catalog.score[f] >= catalog.score[g]
  <2>1. SUFFICES ASSUME NEW f \in ids, NEW g \in ids, <<f, g>> \in Better
                 PROVE  catalog.score[f] >= catalog.score[g]
    OBVIOUS
  <2>2. catalog.score[f] \in Nat /\ catalog.score[g] \in Nat
    BY <1>1
  <2>3. catalog.score[f] > catalog.score[g] \/ catalog.score[f] = catalog.score[g]
    BY <2>1 DEF Better
  <2>4. QED BY <2>2, <2>3
<1> HIDE DEF c, at, size
<1>6. \A n \in 1 .. size : n \in 1 .. c /\ at[n] \in Fps
  BY <1>2, <1>3
<1>7. \A n \in 1 .. size : entry(n) \in Match
  BY <1>1, <1>6 DEF Match
<1>8. Ranked(ids) \in [1 .. size -> Match]
  BY <1>4, <1>7
<1>9. Ranked(ids) \in Seq(Match) /\ DOMAIN Ranked(ids) = 1 .. size
  BY <1>3, <1>8, ListIsSeq
<1>10. Descending(Ranked(ids))
  <2>1. SUFFICES ASSUME NEW m \in 1 .. size, NEW n \in 1 .. size, m < n
                 PROVE  Ranked(ids)[m].score >= Ranked(ids)[n].score
    BY <1>9 DEF Descending
  <2>2. catalog.score[at[m]] >= catalog.score[at[n]]
    BY <1>2, <1>5, <1>6, <2>1
  <2>3. Ranked(ids)[m].score = catalog.score[at[m]] /\ Ranked(ids)[n].score = catalog.score[at[n]]
    BY <1>4
  <2>4. QED BY <2>2, <2>3
<1>11. ASSUME ~ Fast, NEW f \in ids PROVE \E n \in DOMAIN Ranked(ids) : Ranked(ids)[n].id = f
  <2>1. PICK n \in 1 .. c : at[n] = f
    BY <1>2
  <2>2. n \in 1 .. size
    BY <1>3, <1>11
  <2>3. Ranked(ids)[n].id = f
    BY <1>4, <2>1, <2>2
  <2>4. QED BY <1>9, <2>2, <2>3
<1>12. QED BY <1>9, <1>10, <1>11

\* What the index holds is a candidate, or one of those the importer may miss.
LEMMA CandidatesSound ==
  ASSUME WorldSound, NEW f \in indexed, catalog.terms[f] > 0
  PROVE  f \in Candidates(indexed) \/ Missed(f)
<1> DEFINE ids == indexed
           hits == {g \in ids : catalog.terms[g] > 0}
           all == {catalog.terms[g] : g \in hits} \union {0}
           best == Max(all)
           good == {g \in hits : catalog.terms[g] * 100 > best * MinPct}
           Ahead == {g \in good : \/ catalog.terms[g] > catalog.terms[f]
                                  \/ catalog.terms[g] = catalog.terms[f] /\ g < f}
<1>1. /\ catalog.terms \in [Fps -> Nat] /\ Fps \subseteq Nat /\ ids \subseteq Fps /\ f \in Fps
      /\ IsFiniteSet(Fps) /\ f \in hits
  BY WorldParts, LookupsAssumption
<1>2. IsFiniteSet(all) /\ all \subseteq Int /\ all # {}
  <2> DEFINE S == {catalog.terms[g] : g \in hits}
             t == [g \in hits |-> catalog.terms[g]]
  <2>1. IsFiniteSet(hits)
    BY <1>1, FS_Subset
  <2>2. t \in Surjection(hits, S)
    BY DEF Surjection
  <2>3. IsFiniteSet(S)
    BY <2>1, <2>2, FS_Surjection
  <2>4. IsFiniteSet(all)
    BY <2>3, FS_AddElement
  <2>5. all \subseteq Int
    BY <1>1
  <2>6. QED BY <2>4, <2>5
<1>3. best \in all /\ \A x \in all : best >= x
  BY <1>2, Extremes
<1>4. PICK g \in hits : best = catalog.terms[g]
  <2>1. catalog.terms[f] \in all /\ catalog.terms[f] \in Nat
    BY <1>1
  <2> HIDE DEF best, all
  <2>2. best # 0
    BY <1>2, <1>3, <2>1
  <2> USE DEF all
  <2>3. QED BY <1>3, <2>2
<1>5. CASE f \notin good
  <2>1. ~ (catalog.terms[f] * 100 > best * MinPct)
    BY <1>1, <1>5
  <2>2. catalog.terms[f] * 100 \in Int /\ catalog.terms[g] * MinPct \in Int
    BY <1>1, <1>4, LookupsAssumption
  <2>3. catalog.terms[f] * 100 <= catalog.terms[g] * MinPct
    BY <1>4, <2>1, <2>2
  <2>4. QED BY <1>1, <2>3 DEF Missed, Beaten
<1>6. CASE f \in good /\ Cardinality(Ahead) < MaxCandidates
  BY <1>6 DEF Candidates
<1>7. CASE ~ (Cardinality(Ahead) < MaxCandidates)
  <2>1. Ahead \subseteq Crowd(f)
    <3>1. SUFFICES ASSUME NEW h \in Ahead PROVE h \in Crowd(f)
      OBVIOUS
    <3>2. /\ h \in ids /\ h \in Fps
          /\ \/ catalog.terms[h] > catalog.terms[f]
             \/ catalog.terms[h] = catalog.terms[f] /\ h < f
      BY <1>1
    <3>3. catalog.terms[h] \in Nat /\ catalog.terms[f] \in Nat /\ h \in Nat /\ f \in Nat
      BY <1>1, <3>2
    <3>4. h # f /\ catalog.terms[h] >= catalog.terms[f]
      BY <3>2, <3>3
    <3>5. QED BY <3>2, <3>4 DEF Crowd
  <2>2. IsFiniteSet(Crowd(f))
    BY <1>1, FS_Subset DEF Crowd
  <2>3. /\ Cardinality(Ahead) <= Cardinality(Crowd(f))
        /\ Cardinality(Ahead) \in Nat /\ Cardinality(Crowd(f)) \in Nat
    BY <2>1, <2>2, FS_Subset, FS_CardinalityType
  <2> HIDE DEF Ahead
  <2>4. Cardinality(Crowd(f)) >= MaxCandidates
    BY <1>7, <2>3, LookupsAssumption
  <2>5. QED BY <2>4 DEF Missed
<1>8. QED BY <1>5, <1>6, <1>7

-----------------------------------------------------------------------------
(* The answer lists each track once *)

Distinct(s) == \A m, n \in DOMAIN s : m < n => s[m].track # s[n].track

\* The results are the first matches of their tracks, in the order they had.
LEMMA ResultsSound ==
  ASSUME NEW matches \in Seq(Match), Descending(matches)
  PROVE  /\ Results(matches) \in Seq(Match)
         /\ Descending(Results(matches)) /\ Distinct(Results(matches))
         /\ Len(matches) <= 1 => Results(matches) = matches
<1> DEFINE firsts == {n \in DOMAIN matches : ~ \E m \in 1 .. n - 1 : matches[m].track = matches[n].track}
           R == {p \in firsts \X firsts : p[1] < p[2]}
           at == InOrder(firsts, R)
           c == Cardinality(firsts)
<1>1. Len(matches) \in Nat /\ DOMAIN matches = 1 .. Len(matches)
  OBVIOUS
<1>2. firsts \subseteq 1 .. Len(matches) /\ firsts \subseteq Int /\ IsFiniteSet(1 .. Len(matches))
  BY <1>1, FS_Interval
<1>3. IsFiniteSet(firsts) /\ Orders(R, firsts)
  BY <1>2, FS_Subset, NumbersOrder
<1>4. /\ c \in Nat
      /\ \A n \in 1 .. c : at[n] \in firsts
      /\ \A x \in firsts : \E n \in 1 .. c : at[n] = x
      /\ \A m, n \in 1 .. c : m < n => <<at[m], at[n]>> \in R
  BY <1>3, OrderSound
<1>5. Results(matches) = [k \in 1 .. c |-> matches[at[k]]]
  BY DEF Results
<1>6. \A x, y \in firsts : <<x, y>> \in R => x < y
  OBVIOUS
<1>7. ASSUME NEW x \in firsts, NEW y \in firsts, x < y
      PROVE  matches[x].score >= matches[y].score /\ matches[x].track # matches[y].track
  <2>1. x \in DOMAIN matches /\ y \in DOMAIN matches /\ x \in 1 .. y - 1
    BY <1>1, <1>2, <1>7
  <2>2. QED BY <1>7, <2>1 DEF Descending
<1>8. \A x \in firsts : matches[x] \in Match
  BY <1>2
<1>9. Len(matches) = 1 => firsts = {1}
  BY <1>1
<1> HIDE DEF firsts, R, at, c
<1>10. Results(matches) \in [1 .. c -> Match]
  BY <1>4, <1>5, <1>8
<1>11. Results(matches) \in Seq(Match) /\ DOMAIN Results(matches) = 1 .. c
  BY <1>4, <1>10, ListIsSeq
<1>12. ASSUME NEW m \in 1 .. c, NEW n \in 1 .. c, m < n
       PROVE  /\ Results(matches)[m].score >= Results(matches)[n].score
              /\ Results(matches)[m].track # Results(matches)[n].track
  <2>1. at[m] \in firsts /\ at[n] \in firsts /\ at[m] < at[n]
    BY <1>4, <1>6, <1>12
  <2>2. Results(matches)[m] = matches[at[m]] /\ Results(matches)[n] = matches[at[n]]
    BY <1>5
  <2>3. QED BY <1>7, <2>1, <2>2
<1>13. ASSUME Len(matches) <= 1 PROVE Results(matches) = matches
  <2>1. c = Len(matches) /\ \A k \in 1 .. c : at[k] = k
    <3>1. CASE Len(matches) = 1
      <4>1. c = 1
        BY <1>9, <3>1, FS_Singleton DEF c
      <4>2. QED BY <1>4, <1>9, <3>1, <4>1
    <3>2. CASE Len(matches) = 0
      <4>1. firsts = {}
        BY <1>2, <3>2
      <4>2. c = 0
        BY <4>1, FS_EmptySet DEF c
      <4>3. QED BY <3>2, <4>2
    <3>3. QED BY <1>1, <1>13, <3>1, <3>2
  <2>2. Len(Results(matches)) = Len(matches)
    BY <1>4, <1>10, <2>1, ListIsSeq
  <2>3. \A k \in 1 .. Len(Results(matches)) : Results(matches)[k] = matches[k]
    BY <1>5, <2>1, <2>2
  <2>4. QED BY <1>11, <2>2, <2>3, SeqEqual
<1>14. Descending(Results(matches)) /\ Distinct(Results(matches))
  BY <1>11, <1>12 DEF Descending, Distinct
<1>15. QED BY <1>11, <1>13, <1>14

-----------------------------------------------------------------------------
(* Parsing *)

\* What is known of a request.
LEMMA RequestParts ==
  ASSUME WorldSound
  PROVE  /\ request.kind \in {"lookup", "submit", "import"}
         /\ IsFiniteSet(DOMAIN request.entries) /\ DOMAIN request.entries \subseteq Int
         /\ IsFiniteSet(Valid) /\ Valid \subseteq DOMAIN request.entries
         /\ \A i \in DOMAIN request.entries :
              request.entries[i].kind = "submission" => request.entries[i].mbids \in Nat
         /\ request.kind = "import" =>
              /\ ~ request.fpstore
              /\ \E i \in DOMAIN request.entries :
                   DOMAIN request.entries = {i} /\ request.entries[i].kind = "fp"
<1>1. request \in Requests
  BY DEF WorldSound
<1>2. IsFiniteSet(DOMAIN request.entries) /\ Valid \subseteq DOMAIN request.entries
  BY <1>1, LookupsAssumption DEF Valid
<1>3. IsFiniteSet(Valid)
  BY <1>2, FS_Subset
<1>4. QED BY <1>1, <1>2, <1>3, LookupsAssumption

\* Nothing was found and inserted yet when the parameters have been parsed.
LEMMA FreshKept ==
  ASSUME LookupsInv, pc = "parse", UNCHANGED <<world, request, search, found, rows, before>>,
         queries' \in Seq(Valid), pc' \in {"parse", "error", "query", "insert"},
         request.kind = "submit" => pc' # "query", pc' = "insert" => request.kind = "submit"
  PROVE  WorldSound' /\ StepsSound' /\ FoundSound' /\ RowsSound' /\ SearchSound'
<1> USE DEF LookupsInv
<1>1. WorldSound'
  BY DEF WorldSound, world
<1>2. found = <<>> /\ found' = <<>> /\ rows = <<>> /\ rows' = <<>>
  BY DEF FoundSound, RowsSound
<1>3. StepsSound'
  BY DEF StepsSound
<1>4. FoundSound'
  <2>1. found' \in Seq(Seq(Match)) /\ Len(found') = 0 /\ DOMAIN found' = {}
    BY <1>2
  <2>2. Len(queries') >= 0
    OBVIOUS
  <2>3. QED BY <1>2, <2>1, <2>2 DEF FoundSound
<1>5. RowsSound'
  <2>1. Valid' = Valid
    BY DEF Valid, IsValid
  <2>2. rows' \in Seq(Valid')
    BY <1>2
  <2>3. ASSUME NEW i PROVE Cardinality({n \in DOMAIN rows' : rows'[n] = i}) = 0 /\ i \notin Done'
    <3>1. DOMAIN rows' = {} /\ DOMAIN found' = {}
      BY <1>2
    <3>2. {n \in DOMAIN rows' : rows'[n] = i} = {} /\ Done' = {}
      BY <3>1 DEF Done
    <3>3. QED BY <3>2, FS_EmptySet
  <2>4. QED BY <1>2, <2>2, <2>3 DEF RowsSound
<1>6. SearchSound'
  BY <1>2 DEF SearchSound
<1>7. QED BY <1>1, <1>3, <1>4, <1>5, <1>6

\* An entry is parsed: the next number, above those of the queries so far.
LEMMA ParseEntryKeeps ==
  ASSUME LookupsInv, ParseEntry
  PROVE  LookupsInv'
<1> DEFINE i == Min(todo)
<1>1. /\ todo \subseteq DOMAIN request.entries /\ queries \in Seq(Valid)
      /\ \A m, n \in DOMAIN queries : m < n => queries[m] < queries[n]
      /\ Queried = Valid \ todo /\ \A k \in Queried, j \in todo : k < j
  BY DEF LookupsInv, QueriesSound, ParseEntry
<1>2. /\ IsFiniteSet(DOMAIN request.entries) /\ DOMAIN request.entries \subseteq Int
      /\ Valid \subseteq DOMAIN request.entries
  BY RequestParts DEF LookupsInv
<1>3. IsFiniteSet(todo) /\ todo \subseteq Int /\ todo # {}
  BY <1>1, <1>2, FS_Subset DEF ParseEntry
<1>4. i \in todo /\ \A j \in todo : i <= j
  BY <1>3, Extremes
<1>5. /\ todo' = todo \ {i} /\ request' = request
      /\ queries' = IF IsValid(request.entries[i]) THEN Append(queries, i) ELSE queries
      /\ pc' = IF queries' = <<>> /\ todo' = {} THEN "error" ELSE "parse"
  BY DEF ParseEntry
<1>6. Valid' = Valid
  BY <1>5 DEF Valid, IsValid
<1>7. i \in Valid <=> IsValid(request.entries[i])
  BY <1>1, <1>4 DEF Valid
<1> HIDE DEF i
<1>8. /\ queries' \in Seq(Valid)
      /\ \A m, n \in DOMAIN queries' : m < n => queries'[m] < queries'[n]
      /\ {queries'[n] : n \in DOMAIN queries'} = Valid \ todo'
  <2>1. CASE i \in Valid
    <3>1. queries' = Append(queries, i)
      BY <1>5, <1>7, <2>1
    <3>2. /\ queries' \in Seq(Valid) /\ DOMAIN queries' = 1 .. Len(queries) + 1
          /\ queries'[Len(queries) + 1] = i /\ \A n \in 1 .. Len(queries) : queries'[n] = queries[n]
          /\ DOMAIN queries = 1 .. Len(queries) /\ Len(queries) \in Nat
      BY <1>1, <2>1, <3>1
    <3>3. \A n \in 1 .. Len(queries) : queries[n] \in Queried /\ queries[n] < i
      BY <1>1, <1>4, <3>2 DEF Queried
    <3>4. \A m, n \in DOMAIN queries' : m < n => queries'[m] < queries'[n]
      <4>1. SUFFICES ASSUME NEW m \in DOMAIN queries', NEW n \in DOMAIN queries', m < n
                     PROVE  queries'[m] < queries'[n]
        OBVIOUS
      <4>2. m \in 1 .. Len(queries)
        BY <3>2, <4>1
      <4>3. CASE n = Len(queries) + 1
        BY <3>2, <3>3, <4>2, <4>3
      <4>4. CASE n \in 1 .. Len(queries)
        BY <1>1, <3>2, <4>1, <4>2, <4>4
      <4>5. QED BY <3>2, <4>3, <4>4
    <3>5. {queries'[n] : n \in DOMAIN queries'} = Queried \union {i}
      BY <3>2 DEF Queried
    <3>6. QED BY <1>1, <1>4, <1>5, <2>1, <3>2, <3>4, <3>5
  <2>2. CASE i \notin Valid
    <3>1. queries' = queries
      BY <1>5, <1>7, <2>2
    <3>2. QED BY <1>1, <1>5, <2>2, <3>1 DEF Queried
  <2>3. QED BY <2>1, <2>2
<1>9. QueriesSound'
  <2>1. todo' \subseteq DOMAIN request'.entries
    BY <1>1, <1>5
  <2>2. \A k \in Valid \ todo', j \in todo' : k < j
    BY <1>1, <1>2, <1>4, <1>5
  <2>3. pc' = "error" => Valid' = {}
    <3>1. SUFFICES ASSUME pc' = "error" PROVE Valid' = {}
      OBVIOUS
    <3>2. queries' = <<>> /\ todo' = {}
      BY <1>5, <3>1
    <3>3. {queries'[n] : n \in DOMAIN queries'} = {}
      BY <3>2
    <3>4. QED BY <1>6, <1>8, <3>2, <3>3
  <2>4. pc' \in {"parse", "error"}
    BY <1>5
  <2>5. Queried' = Valid \ todo'
    BY <1>8 DEF Queried
  <2>6. QED BY <1>6, <1>8, <2>1, <2>2, <2>3, <2>4, <2>5 DEF QueriesSound
<1>10. WorldSound' /\ StepsSound' /\ FoundSound' /\ RowsSound' /\ SearchSound'
  BY <1>8, FreshKept DEF ParseEntry
<1>11. QED BY <1>9, <1>10 DEF LookupsInv

\* A request without entries is refused.
LEMMA NoEntriesKeeps ==
  ASSUME LookupsInv, NoEntries
  PROVE  LookupsInv'
<1>1. /\ todo = {} /\ queries = <<>> /\ queries' = queries /\ request' = request /\ todo' = todo
      /\ pc = "parse" /\ pc' = "error"
  BY DEF NoEntries
<1>2. Queried = {}
  BY <1>1 DEF Queried
<1>3. Valid = {} /\ Valid' = Valid /\ queries' \in Seq(Valid)
  BY <1>1, <1>2 DEF LookupsInv, QueriesSound, Valid, IsValid
<1>4. QueriesSound'
  BY <1>1, <1>3 DEF LookupsInv, QueriesSound
<1>5. WorldSound' /\ StepsSound' /\ FoundSound' /\ RowsSound' /\ SearchSound'
  BY <1>3, FreshKept DEF NoEntries
<1>6. QED BY <1>4, <1>5 DEF LookupsInv

\* The queries that are chosen are different good entries, so a request with too
\* many of them has too many good entries.
LEMMA TooManyAreGood ==
  ASSUME WorldSound, NEW chosen \in Seq(Valid), TooMany(chosen),
         \A m, n \in DOMAIN chosen : m < n => chosen[m] < chosen[n]
  PROVE  Cardinality(Valid) > MaxQueries
<1>1. PICK k \in {"track", "fp"} :
        Cardinality({i \in DOMAIN chosen : request.entries[chosen[i]].kind = k}) > MaxQueries
  BY DEF TooMany
<1> DEFINE S == {i \in DOMAIN chosen : request.entries[chosen[i]].kind = k}
           f == [i \in S |-> chosen[i]]
<1>2. IsFiniteSet(Valid) /\ Valid \subseteq Int
  BY RequestParts
<1>3. \A i \in S : f[i] \in Valid
  OBVIOUS
<1>4. ASSUME NEW i \in S, NEW j \in S, f[i] = f[j] PROVE i = j
  <2>1. i \in DOMAIN chosen /\ j \in DOMAIN chosen /\ f[i] = chosen[i] /\ f[j] = chosen[j]
    OBVIOUS
  <2>2. i \in Nat /\ j \in Nat
    BY <2>1
  <2>3. f[i] \in Int
    BY <1>2, <1>3
  <2>4. chosen[i] = chosen[j] /\ chosen[i] \in Int
    BY <1>4, <2>1, <2>3
  <2> HIDE DEF f, S
  <2>5. i < j => chosen[i] < chosen[j]
    BY <2>1
  <2>6. j < i => chosen[j] < chosen[i]
    BY <2>1
  <2>7. QED BY <2>2, <2>4, <2>5, <2>6
<1>5. f \in Injection(S, Valid)
  BY <1>3, <1>4 DEF Injection, IsInjective
<1>6. IsFiniteSet(S) /\ Cardinality(S) <= Cardinality(Valid)
  BY <1>2, <1>5, FS_Injection
<1>7. Cardinality(S) \in Nat /\ Cardinality(Valid) \in Nat
  BY <1>2, <1>6, FS_CardinalityType
<1>8. Cardinality(S) > MaxQueries
  BY <1>1
<1> HIDE DEF S
<1>9. QED BY <1>6, <1>7, <1>8, LookupsAssumption

\* The parameters are parsed: every good entry is a query, or the first one is.
LEMMA ParsedKeeps ==
  ASSUME LookupsInv, Parsed
  PROVE  LookupsInv'
<1> DEFINE one == request.kind = "lookup" /\ ~ request.batch
           chosen == IF one THEN <<Head(queries)>> ELSE queries
<1>1. /\ queries \in Seq(Valid) /\ queries # <<>> /\ todo = {}
      /\ \A m, n \in DOMAIN queries : m < n => queries[m] < queries[n]
      /\ Queried = Valid
  BY DEF LookupsInv, QueriesSound, Parsed
<1>2. IsFiniteSet(Valid) /\ Valid \subseteq Int
  BY RequestParts DEF LookupsInv
<1>3. /\ queries' = chosen /\ request' = request /\ todo' = todo
      /\ pc' = IF request.kind = "submit" THEN "insert"
               ELSE IF TooMany(chosen) THEN "error" ELSE "query"
  BY DEF Parsed
<1>4. Valid' = Valid
  BY <1>3 DEF Valid, IsValid
<1>5. Head(queries) = queries[1] /\ 1 \in DOMAIN queries /\ queries[1] \in Valid
  BY <1>1
<1>6. queries[1] = Min(Valid)
  <2>1. Min(Valid) \in Valid /\ \A j \in Valid : Min(Valid) <= j
    BY <1>2, <1>5, Extremes
  <2>2. PICK n \in DOMAIN queries : queries[n] = Min(Valid)
    BY <1>1, <2>1 DEF Queried
  <2>3. n = 1 \/ 1 < n
    BY <1>1
  <2>4. CASE 1 < n
    <3>1. queries[1] < queries[n] /\ queries[n] <= queries[1]
      BY <1>1, <1>5, <2>1, <2>2, <2>4
    <3>2. queries[1] \in Int /\ queries[n] \in Int
      BY <1>2, <1>5, <2>1, <2>2
    <3>3. QED BY <3>1, <3>2
  <2>5. QED BY <2>2, <2>3, <2>4
<1>7. /\ chosen \in Seq(Valid)
      /\ \A m, n \in DOMAIN chosen : m < n => chosen[m] < chosen[n]
      /\ IF one THEN chosen = <<Min(Valid)>> ELSE {chosen[n] : n \in DOMAIN chosen} = Valid
  <2>1. CASE one
    <3>1. chosen = <<queries[1]>> /\ DOMAIN chosen = {1}
      BY <1>5, <2>1
    <3>2. QED BY <1>5, <1>6, <2>1, <3>1
  <2>2. CASE ~ one
    BY <1>1, <2>2 DEF Queried
  <2>3. QED BY <2>1, <2>2
<1>8. TooMany(chosen) => Cardinality(Valid) > MaxQueries
  BY <1>7, TooManyAreGood DEF LookupsInv
<1> HIDE DEF chosen
<1>9. QueriesSound'
  <2>1. todo' \subseteq DOMAIN request'.entries
    BY <1>1, <1>3
  <2>2. pc' \in {"insert", "error", "query"} /\ (pc' = "error" => TooMany(chosen))
    BY <1>3
  <2>3. one \/ Queried' = Valid
    BY <1>3, <1>7 DEF Queried
  <2>4. pc' = "error" => Cardinality(Valid') > MaxQueries
    BY <1>4, <1>8, <2>2
  <2>5. IF request'.kind = "lookup" /\ ~ request'.batch THEN queries' = <<Min(Valid')>>
        ELSE Queried' = Valid'
    BY <1>3, <1>4, <1>7, <2>3
  <2>6. queries' \in Seq(Valid') /\ \A m, n \in DOMAIN queries' : m < n => queries'[m] < queries'[n]
    BY <1>3, <1>4, <1>7
  <2>7. QED BY <2>1, <2>2, <2>4, <2>5, <2>6 DEF QueriesSound
<1>10. WorldSound' /\ StepsSound' /\ FoundSound' /\ RowsSound' /\ SearchSound'
  <2>1. /\ pc = "parse" /\ UNCHANGED <<world, request, search, found, rows, before>>
        /\ queries' \in Seq(Valid)
    BY <1>3, <1>7 DEF Parsed
  <2>2. /\ pc' \in {"parse", "error", "query", "insert"}
        /\ request.kind = "submit" => pc' # "query"
        /\ pc' = "insert" => request.kind = "submit"
    BY <1>3
  <2>3. QED BY <2>1, <2>2, FreshKept
<1>11. QED BY <1>9, <1>10 DEF LookupsInv

-----------------------------------------------------------------------------
(* Submissions *)

\* Where i is in a sequence.
Places(s, i) == {n \in DOMAIN s : s[n] = i}

\* A sequence with e, k times, at its end.
With(s, k, e) == s \o [n \in 1 .. k |-> e]

\* The rows of one more entry: only its own are more, and it had none.
LEMMA RowsAdded ==
  ASSUME NEW s \in Seq(Int), NEW e \in Int, NEW k \in Nat, NEW s2,
         s2 = With(s, k, e)
  PROVE  /\ Places(s, e) = {} => Cardinality(Places(s2, e)) = k
         /\ \A i \in Int : i # e => Places(s2, i) = Places(s, i)
<1> DEFINE block == [n \in 1 .. k |-> e]
<1>1. block \in Seq(Int) /\ Len(block) = k
  BY ListIsSeq
<1>2. /\ s2 \in Seq(Int) /\ Len(s2) = Len(s) + k /\ Len(s) \in Nat
      /\ DOMAIN s = 1 .. Len(s) /\ DOMAIN s2 = 1 .. Len(s) + k
  BY <1>1, ConcatProperties, LenProperties DEF With
<1>3. /\ \A n \in 1 .. Len(s) : s2[n] = s[n]
      /\ \A n \in Len(s) + 1 .. Len(s) + k : s2[n] = e
  BY <1>1, <1>2, ConcatProperties DEF With
<1> HIDE DEF block
<1>4. ASSUME Places(s, e) = {}
      PROVE  Cardinality(Places(s2, e)) = k
  <2>1. Places(s2, e) = Len(s) + 1 .. Len(s) + k
    <3>1. \A n \in 1 .. Len(s) : s2[n] # e
      BY <1>2, <1>3, <1>4 DEF Places
    <3>2. \A n \in 1 .. Len(s) + k : s2[n] = e <=> n \in Len(s) + 1 .. Len(s) + k
      BY <1>2, <1>3, <3>1
    <3>3. \A n \in Len(s) + 1 .. Len(s) + k : n \in 1 .. Len(s) + k
      BY <1>2
    <3>4. QED BY <1>2, <3>2, <3>3 DEF Places
  <2>2. Cardinality(Len(s) + 1 .. Len(s) + k) = k
    BY <1>2, FS_Interval
  <2>3. QED BY <2>1, <2>2
<1>5. ASSUME NEW i \in Int, i # e
      PROVE  Places(s2, i) = Places(s, i)
  <2>1. \A n \in 1 .. Len(s) + k : s2[n] = i => n \in 1 .. Len(s)
    <3>1. \A n \in 1 .. Len(s) + k : n \in 1 .. Len(s) \/ n \in Len(s) + 1 .. Len(s) + k
      BY <1>2
    <3>2. \A n \in Len(s) + 1 .. Len(s) + k : s2[n] # i
      BY <1>3, <1>5
    <3>3. QED BY <3>1, <3>2
  <2>2. \A n \in 1 .. Len(s) : n \in 1 .. Len(s) + k
    BY <1>2
  <2>3. QED BY <1>2, <1>3, <2>1, <2>2 DEF Places
<1>6. QED BY <1>4, <1>5

\* While a submission is inserted, each entry that is done has its rows.
LEMMA InsertKeeps ==
  ASSUME LookupsInv, Insert
  PROVE  LookupsInv'
<1> DEFINE i == Len(found) + 1
           e == queries[i]
           entry == request.entries[e]
<1>1. /\ i <= Len(queries) /\ request.kind = "submit" /\ pc = "insert" /\ pc' = "insert"
      /\ rows' = rows \o [n \in 1 .. RowsOf(entry) |-> e] /\ found' = Append(found, <<>>)
      /\ UNCHANGED <<world, request, todo, queries, search, before>>
  BY DEF Insert, LookupsInv, StepsSound
<1>2. /\ queries \in Seq(Valid) /\ found \in Seq(Seq(Match)) /\ rows \in Seq(Valid)
      /\ \A m, n \in DOMAIN queries : m < n => queries[m] < queries[n]
  BY DEF LookupsInv, QueriesSound, FoundSound, RowsSound
<1>3. Valid' = Valid
  BY <1>1 DEF Valid, IsValid
<1>4. /\ Valid \subseteq DOMAIN request.entries /\ DOMAIN request.entries \subseteq Int
      /\ \A j \in DOMAIN request.entries :
           request.entries[j].kind = "submission" => request.entries[j].mbids \in Nat
  BY RequestParts DEF LookupsInv
<1>5. Len(found) \in Nat /\ Len(queries) \in Nat /\ DOMAIN queries = 1 .. Len(queries)
      /\ DOMAIN found = 1 .. Len(found)
  BY <1>2
<1>6. \A n \in DOMAIN queries : queries[n] \in Valid /\ queries[n] \in Int
  BY <1>2, <1>4, <1>5
<1>7. i \in DOMAIN queries /\ e \in Valid
  BY <1>1, <1>5, <1>6
<1>8. \A j \in Valid : request.entries[j].kind = "submission"
  BY <1>1 DEF Valid, IsValid, ParseSubmission
<1>9. RowsOf(entry) \in Nat
  BY <1>4, <1>7, <1>8 DEF RowsOf
<1>10. /\ found' \in Seq(Seq(Match)) /\ DOMAIN found' = 1 .. Len(found) + 1
       /\ Len(found') = Len(found) + 1
       /\ \A n \in 1 .. Len(found) : found'[n] = found[n]
       /\ found'[Len(found) + 1] = <<>>
  <2>1. <<>> \in Seq(Match)
    OBVIOUS
  <2> HIDE DEF Match
  <2>2. QED BY <1>1, <1>2, <1>5, <2>1
<1>11. WorldSound' /\ QueriesSound' /\ StepsSound'
  BY <1>1, <1>3 DEF LookupsInv, WorldSound, world, QueriesSound, Queried, StepsSound
<1>12. FoundSound'
  <2>1. \A n \in DOMAIN found' : \A j, k \in DOMAIN found'[n] :
          j < k => found'[n][j].score >= found'[n][k].score
    <3>1. SUFFICES ASSUME NEW n \in DOMAIN found', NEW j \in DOMAIN found'[n],
                          NEW k \in DOMAIN found'[n], j < k
                   PROVE  found'[n][j].score >= found'[n][k].score
      OBVIOUS
    <3>2. CASE n = Len(found) + 1
      BY <1>10, <3>2
    <3>3. CASE n \in 1 .. Len(found)
      <4>1. found'[n] = found[n] /\ n \in DOMAIN found
        BY <1>5, <1>10, <3>3
      <4>2. QED BY <3>1, <4>1 DEF LookupsInv, FoundSound
    <3>4. QED BY <1>5, <1>10, <3>2, <3>3
  <2>2. \A n \in DOMAIN found' : KindOf(n)' # "track"
    <3>1. \A n \in DOMAIN found' : n \in DOMAIN queries
      BY <1>1, <1>5, <1>10
    <3>2. \A n \in DOMAIN found' : KindOf(n)' = request.entries[queries[n]].kind
      BY <1>1 DEF KindOf
    <3>3. QED BY <1>6, <1>8, <3>1, <3>2
  <2>3. Len(found') <= Len(queries')
    BY <1>1, <1>10
  <2>4. QED BY <1>1, <1>10, <2>1, <2>2, <2>3 DEF FoundSound
<1>13. RowsSound'
  <2>1. rows \in Seq(Int) /\ e \in Int
    BY <1>2, <1>4, <1>7, SeqMonotonic
  <2>2. rows' \in Seq(Valid)
    <3>1. [n \in 1 .. RowsOf(entry) |-> e] \in Seq(Valid)
      BY <1>7, <1>9, ListIsSeq
    <3>2. QED BY <1>1, <1>2, <3>1, ConcatProperties
  <2>3. Done' = Done \union {e} /\ Done = {queries[n] : n \in 1 .. Len(found)}
    <3>1. Done' = {queries[n] : n \in 1 .. Len(found) + 1}
      BY <1>1, <1>10 DEF Done
    <3>2. Done = {queries[n] : n \in 1 .. Len(found)}
      BY <1>5 DEF Done
    <3>3. QED BY <1>5, <3>1, <3>2
  <2>4. e \notin Done
    <3>1. \A n \in 1 .. Len(found) : n \in DOMAIN queries /\ n < i
      BY <1>1, <1>5
    <3>2. \A n \in 1 .. Len(found) : queries[n] < e
      BY <1>2, <1>7, <3>1
    <3> HIDE DEF e
    <3>3. \A n \in 1 .. Len(found) : queries[n] # e
      BY <1>6, <2>1, <3>1, <3>2
    <3>4. QED BY <2>3, <3>3
  <2>5. \A j \in DOMAIN request.entries :
          Cardinality({n \in DOMAIN rows : rows[n] = j})
            = IF j \in Done THEN RowsOf(request.entries[j]) ELSE 0
    BY <1>1 DEF LookupsInv, RowsSound
  <2>6. {n \in DOMAIN rows : rows[n] = e} = {}
    <3>1. Cardinality({n \in DOMAIN rows : rows[n] = e}) = 0
      BY <1>4, <1>7, <2>4, <2>5
    <3>2. IsFiniteSet(DOMAIN rows)
      <4>1. DOMAIN rows = 1 .. Len(rows) /\ Len(rows) \in Nat
        BY <2>1
      <4>2. QED BY <4>1, FS_Interval
    <3>3. IsFiniteSet({n \in DOMAIN rows : rows[n] = e})
      BY <3>2, FS_Subset
    <3>4. QED BY <3>1, <3>3, FS_EmptySet
  <2> DEFINE at(j) == {n \in DOMAIN rows : rows[n] = j}
             now(j) == {n \in DOMAIN rows' : rows'[n] = j}
  <2>7. Cardinality(now(e)) = RowsOf(entry) /\ \A j \in Int : j # e => now(j) = at(j)
    <3>0. PICK k \in Nat : k = RowsOf(entry)
      BY <1>9
    <3>1. rows' = With(rows, k, e)
      BY <1>1, <3>0 DEF With
    <3> HIDE DEF e
    <3>2. /\ Places(rows, e) = {} => Cardinality(Places(rows', e)) = k
          /\ \A j \in Int : j # e => Places(rows', j) = Places(rows, j)
      BY <2>1, <3>1, RowsAdded
    <3>3. Cardinality({n \in DOMAIN rows' : rows'[n] = e}) = k
      BY <2>6, <3>2 DEF Places
    <3>4. ASSUME NEW j \in Int, j # e
          PROVE  {n \in DOMAIN rows' : rows'[n] = j} = {n \in DOMAIN rows : rows[n] = j}
      BY <3>2, <3>4 DEF Places
    <3>5. QED BY <3>0, <3>3, <3>4
  <2>8. ASSUME NEW j \in DOMAIN request.entries
        PROVE  Cardinality(now(j)) = IF j \in Done' THEN RowsOf(request.entries[j]) ELSE 0
    <3>1. CASE j = e
      BY <2>3, <2>7, <3>1
    <3>2. CASE j # e
      <4>1. now(j) = at(j) /\ (j \in Done' <=> j \in Done)
        BY <1>4, <2>3, <2>7, <3>2
      <4>2. Cardinality(at(j)) = IF j \in Done THEN RowsOf(request.entries[j]) ELSE 0
        BY <2>5
      <4> HIDE DEF now, at
      <4>3. QED BY <4>1, <4>2
    <3>3. QED BY <3>1, <3>2
  <2>9. QED BY <1>1, <1>3, <2>2, <2>8 DEF RowsSound, RowsOf
<1>14. SearchSound'
  BY <1>1 DEF SearchSound
<1>15. QED BY <1>11, <1>12, <1>13, <1>14 DEF LookupsInv

\* The rows of all entries are committed, or none are.
LEMMA SubmissionEnds ==
  ASSUME LookupsInv, CommitRows \/ InsertFails
  PROVE  LookupsInv'
<1>1. /\ request.kind = "submit" /\ pc = "insert"
      /\ \/ pc' = "answered" /\ rows' = rows /\ Len(found) = Len(queries)
         \/ pc' = "failed" /\ rows' = <<>>
      /\ UNCHANGED <<world, request, todo, queries, search, found, before>>
  BY DEF CommitRows, InsertFails, LookupsInv, StepsSound
<1>2. Valid' = Valid
  BY <1>1 DEF Valid, IsValid
<1>3. WorldSound' /\ StepsSound' /\ SearchSound'
  BY <1>1 DEF LookupsInv, WorldSound, world, StepsSound, SearchSound
<1>4. QueriesSound'
  BY <1>1, <1>2 DEF LookupsInv, QueriesSound, Queried
<1>5. FoundSound'
  BY <1>1 DEF LookupsInv, FoundSound, KindOf, Stands, AskedFor, world
<1>6. RowsSound'
  <2>1. Done' = Done
    BY <1>1 DEF Done
  <2>2. CASE pc' = "answered"
    BY <1>1, <1>2, <2>1, <2>2 DEF LookupsInv, RowsSound, RowsOf
  <2>3. CASE pc' = "failed"
    BY <1>1, <1>2, <2>3 DEF RowsSound
  <2>4. QED BY <1>1, <2>2, <2>3
<1>7. QED BY <1>3, <1>4, <1>5, <1>6 DEF LookupsInv

-----------------------------------------------------------------------------
(* Steps of a search *)

Waiting == {"resolve", "fpstore", "maxid", "index", "database", "nothing"}

\* An importer's request is one query.
LEMMA ImporterAsksOnce ==
  ASSUME LookupsInv, request.kind = "import"
  PROVE  Len(queries) \in Nat /\ Len(queries) <= 1
<1>1. PICK i \in DOMAIN request.entries : DOMAIN request.entries = {i}
  BY RequestParts DEF LookupsInv
<1>2. queries \in Seq(Valid) /\ Valid \subseteq {i} /\ i \in Int
  BY <1>1, RequestParts DEF LookupsInv, QueriesSound
<1>3. \A m, n \in DOMAIN queries : m < n => queries[m] < queries[n]
  BY DEF LookupsInv, QueriesSound
<1>4. Len(queries) \in Nat /\ DOMAIN queries = 1 .. Len(queries)
  BY <1>2
<1>5. ASSUME Len(queries) > 1 PROVE FALSE
  <2>1. 1 \in DOMAIN queries /\ 2 \in DOMAIN queries
    BY <1>4, <1>5
  <2>2. queries[1] = i /\ queries[2] = i
    BY <1>2, <1>4, <2>1
  <2>3. queries[1] < queries[2]
    BY <1>3, <2>1
  <2>4. QED BY <1>2, <2>2, <2>3
<1>6. QED BY <1>4, <1>5

\* A step of a search leaves the world, the queries and the rows alone.
LEMMA SearchMoves ==
  ASSUME LookupsInv, pc \in Waiting \union {"query"}, pc' \in Waiting \union {"query", "failed"},
         UNCHANGED <<world, request, todo, queries, rows>>, before' \subseteq stored
  PROVE  WorldSound' /\ QueriesSound' /\ RowsSound' /\ request.kind # "submit"
<1>1. request.kind # "submit"
  BY DEF LookupsInv, StepsSound, Waiting
<1>2. Valid' = Valid
  BY DEF Valid, IsValid
<1>3. WorldSound'
  BY DEF LookupsInv, WorldSound, world
<1>4. QueriesSound'
  <2>1. Queried' = Queried
    BY DEF Queried
  <2>2. pc \notin {"parse", "error"} /\ pc' \notin {"parse", "error"}
    BY DEF Waiting
  <2>3. QED BY <1>2, <2>1, <2>2 DEF LookupsInv, QueriesSound
<1>5. RowsSound'
  <2>1. rows = <<>> /\ rows' = <<>>
    BY <1>1 DEF LookupsInv, RowsSound
  <2>2. QED BY <1>1, <2>1 DEF RowsSound
<1>6. QED BY <1>1, <1>3, <1>4, <1>5

\* What was found stays as it is until it is answered.
LEMMA FoundStays ==
  ASSUME FoundSound, UNCHANGED <<new_id, request, queries, found>>, pc' \notin {"parse", "answered"}
  PROVE  FoundSound'
<1>1. \A i : KindOf(i)' = KindOf(i) /\ AskedFor(i)' = AskedFor(i)
  BY DEF KindOf, AskedFor
<1>2. QED BY <1>1 DEF FoundSound, Stands

\* A search goes on or fails, and nothing is found by it yet.
LEMMA SearchGoesOn ==
  ASSUME LookupsInv, pc \in Waiting \union {"query"}, pc' \in Waiting \union {"failed"},
         UNCHANGED <<world, request, todo, queries, rows, found>>, before' \subseteq stored,
         Len(found) < Len(queries), StepsSound',
         request.kind = "import" =>
           /\ pc' = "index" =>
                search'.max \in Nat /\ \A f \in before' : f > search'.max \/ f \in indexed
           /\ pc' = "database" =>
                \A f \in before' :
                  catalog.terms[f] > 0 => f > search'.max \/ f \in search'.ids \/ Missed(f)
  PROVE  LookupsInv'
<1>1. WorldSound' /\ QueriesSound' /\ RowsSound'
  BY SearchMoves
<1>2. FoundSound'
  BY FoundStays DEF LookupsInv, world, Waiting
<1>3. SearchSound'
  <2>1. SUFFICES ASSUME request.kind = "import" PROVE SearchSound'
    BY DEF SearchSound
  <2>2. found = <<>>
    <3>1. Len(queries) \in Nat /\ Len(queries) <= 1
      BY <2>1, ImporterAsksOnce
    <3>2. found \in Seq(Seq(Match))
      BY DEF LookupsInv, FoundSound
    <3>3. Len(found) = 0
      BY <3>1, <3>2
    <3>4. QED BY <3>2, <3>3, EmptySeq
  <2>3. \A f : Missed(f)' = Missed(f)
    BY DEF Missed, Crowd, Beaten, world
  <2>4. pc' = "index" =>
          search'.max \in Nat /\ \A f \in before' : f > search'.max \/ f \in indexed'
    BY <2>1 DEF world
  <2>5. pc' = "database" =>
          \A f \in before' :
            catalog'.terms[f] > 0 => f > search'.max \/ f \in search'.ids \/ Missed(f)'
    BY <2>1, <2>3 DEF world
  <2>6. QED BY <2>2, <2>4, <2>5 DEF SearchSound
<1>4. QED BY <1>1, <1>2, <1>3 DEF LookupsInv

\* A query of a fingerprint is waited for, and Current is what it was.
LEMMA CurrentStays ==
  ASSUME UNCHANGED <<request, queries, found>>
  PROVE  Current' = Current
BY DEF Current

\* The importer asks for no track.
LEMMA ImportsNoTrack ==
  ASSUME LookupsInv, request.kind = "import", Len(found) < Len(queries)
  PROVE  Current.kind # "track"
<1>1. queries \in Seq(Valid) /\ found \in Seq(Seq(Match))
  BY DEF LookupsInv, QueriesSound, FoundSound
<1>2. queries[Len(found) + 1] \in Valid
  BY <1>1
<1>3. queries[Len(found) + 1] \in DOMAIN request.entries
  BY <1>2 DEF Valid
<1>4. Current.kind = "fp"
  BY <1>3, RequestParts DEF LookupsInv, Current
<1>5. QED BY <1>4

\* A track is asked for.
LEMMA ReadTrackKeeps ==
  ASSUME LookupsInv, ReadTrack
  PROVE  LookupsInv'
<1>1. /\ pc = "query" /\ Len(found) < Len(queries) /\ Current.kind = "track" /\ pc' = "resolve"
      /\ search' = [NoSearch EXCEPT !.to = new_id[Current.track]]
      /\ UNCHANGED <<world, request, todo, queries, rows, found, before>>
  BY DEF ReadTrack, AsksTrack, SearchStep
<1>2. new_id \in [Tracks -> Tracks] /\ \A t \in Tracks : new_id[new_id[t]] = new_id[t]
  BY DEF LookupsInv, WorldSound
<1>3. Current.track \in Tracks
  BY DEF ReadTrack
<1>4. search'.to = new_id[Current.track]
  BY <1>1 DEF NoSearch
<1>5. search'.to \in Tracks /\ new_id[search'.to] = new_id[Current.track]
  BY <1>2, <1>3, <1>4
<1>6. request.kind \notin {"submit", "import"}
  BY <1>1, ImportsNoTrack DEF LookupsInv, StepsSound
<1>7. StepsSound'
  <2>1. Current' = Current /\ new_id' = new_id
    BY <1>1, CurrentStays DEF world
  <2>2. QED BY <1>1, <1>3, <1>5, <1>6, <2>1 DEF StepsSound
<1>8. before' \subseteq stored
  BY <1>1, WorldParts DEF LookupsInv
<1>9. QED BY <1>1, <1>6, <1>7, <1>8, SearchGoesOn DEF Waiting

\* A search begins.
LEMMA BeginKeeps ==
  ASSUME LookupsInv, NEW next \in {"fpstore", "maxid", "nothing"}, Begin(next),
         next # "maxid" => request.kind # "import"
  PROVE  LookupsInv'
<1>1. /\ pc = "query" /\ Len(found) < Len(queries) /\ Current.kind = "fp" /\ pc' = next
      /\ UNCHANGED <<world, request, todo, queries, rows, found, before>>
  BY DEF Begin, SearchStep
<1>2. request.kind # "submit"
  BY <1>1 DEF LookupsInv, StepsSound
<1>3. StepsSound'
  <2>1. Current' = Current
    BY <1>1, CurrentStays
  <2>2. QED BY <1>1, <1>2, <2>1 DEF StepsSound
<1>4. before' \subseteq stored
  BY <1>1, WorldParts DEF LookupsInv
<1>5. QED BY <1>1, <1>3, <1>4, SearchGoesOn DEF Waiting

\* The importer's search starts with the index, as it has no fpstore.
LEMMA SearchStartsKeeps ==
  ASSUME LookupsInv, SearchStarts
  PROVE  LookupsInv'
<1>1. request.kind = "import" => ~ request.fpstore /\ ~ Fast
  BY RequestParts DEF LookupsInv, Fast
<1>2. QED BY <1>1, BeginKeeps DEF SearchStarts

\* While a search waits for an answer, the query it is for does not change.
LEMMA WaitingStays ==
  ASSUME LookupsInv, pc \in Waiting \ {"resolve"}, pc' \in (Waiting \ {"resolve"}) \union {"failed"},
         UNCHANGED <<world, request, todo, queries, rows, found>>,
         pc' \in {"fpstore", "nothing"} => request.kind # "import"
  PROVE  StepsSound' /\ Len(found) < Len(queries)
<1>1. Len(found) < Len(queries) /\ Current.kind # "track" /\ request.kind # "submit"
  BY DEF LookupsInv, StepsSound, Waiting
<1>2. Current' = Current
  BY CurrentStays
<1>3. QED BY <1>1, <1>2 DEF StepsSound, Waiting

\* The fpstore names fingerprints to look up.
LEMMA FpstoreNames ==
  ASSUME LookupsInv, pc = "fpstore", NEW s, SearchStep("database", s), UNCHANGED <<found, before>>
  PROVE  LookupsInv'
<1>1. /\ pc' = "database"
      /\ UNCHANGED <<world, request, todo, queries, rows, found, before>>
  BY DEF SearchStep
<1>2. request.kind # "import"
  BY DEF LookupsInv, StepsSound
<1>3. StepsSound' /\ Len(found) < Len(queries)
  BY <1>1, <1>2, WaitingStays DEF Waiting
<1>4. before' \subseteq stored
  BY <1>1, WorldParts DEF LookupsInv
<1>5. QED BY <1>1, <1>2, <1>3, <1>4, SearchGoesOn DEF Waiting

\* A search fails.
LEMMA FailsKeeps ==
  ASSUME LookupsInv, SearchFails
  PROVE  LookupsInv'
<1>1. /\ pc \in Waiting \ {"resolve"} /\ pc' = "failed"
      /\ UNCHANGED <<world, request, todo, queries, rows, found, before>>
  BY DEF SearchFails, Fails, SearchStep, Waiting
<1>2. StepsSound' /\ Len(found) < Len(queries)
  BY <1>1, WaitingStays DEF Waiting
<1>3. before' \subseteq stored
  BY <1>1, WorldParts DEF LookupsInv
<1>4. QED BY <1>1, <1>2, <1>3, SearchGoesOn

\* The highest id of the index is read: what it had not passed over by then is
\* to be found.
LEMMA ReadMaxIdKeeps ==
  ASSUME LookupsInv, ReadMaxId
  PROVE  LookupsInv'
<1>1. /\ pc = "maxid" /\ pc' = "index" /\ search' = [NoSearch EXCEPT !.max = maxDoc]
      /\ before' = {f \in stored : f > maxDoc \/ f \in indexed}
      /\ UNCHANGED <<world, request, todo, queries, rows, found>>
  BY DEF ReadMaxId, SearchStep
<1>2. StepsSound' /\ Len(found) < Len(queries)
  BY <1>1, WaitingStays DEF Waiting
<1>3. search'.max = maxDoc /\ maxDoc \in Nat
  BY <1>1, WorldParts DEF NoSearch, LookupsInv
<1>4. before' \subseteq stored /\ \A f \in before' : f > search'.max \/ f \in indexed
  BY <1>1, <1>3
<1>5. QED BY <1>1, <1>2, <1>3, <1>4, SearchGoesOn DEF Waiting

\* The index is searched, when it holds at least what it held when its highest
\* id was read.
LEMMA SearchIndexKeeps ==
  ASSUME LookupsInv, SearchIndex
  PROVE  LookupsInv'
<1>1. /\ pc = "index" /\ pc' = "database"
      /\ search' = [NoSearch EXCEPT !.max = search.max, !.ids = Candidates(indexed)]
      /\ UNCHANGED <<world, request, todo, queries, rows, found, before>>
  BY DEF SearchIndex, SearchStep
<1>2. StepsSound' /\ Len(found) < Len(queries)
  BY <1>1, WaitingStays DEF Waiting
<1>3. ASSUME request.kind = "import", NEW f \in before, catalog.terms[f] > 0
      PROVE  f > search'.max \/ f \in search'.ids \/ Missed(f)
  <2>1. f > search.max \/ f \in indexed
    BY <1>1, <1>3 DEF LookupsInv, SearchSound
  <2>2. search'.max = search.max /\ search'.ids = Candidates(indexed)
    BY <1>1 DEF NoSearch
  <2>3. f \in indexed => f \in Candidates(indexed) \/ Missed(f)
    BY <1>3, CandidatesSound DEF LookupsInv
  <2>4. QED BY <2>1, <2>2, <2>3
<1>4. before' \subseteq stored /\ before' = before
  BY <1>1, WorldParts DEF LookupsInv
<1>5. QED BY <1>1, <1>2, <1>3, <1>4, SearchGoesOn DEF Waiting

-----------------------------------------------------------------------------
(* A query is answered *)

\* What the importer is promised of the matches s.
Finds(s) ==
  \A f \in before :
    f \in catalog.near /\ catalog.score[f] > MinScore /\ catalog.terms[f] > 0 =>
      (\E n \in DOMAIN s : s[n].id = f) \/ Missed(f)

\* Matches are added: they are in order, those of a track stand for it, and those
\* of an importer are complete.
LEMMA MatchedKeeps ==
  ASSUME LookupsInv, pc \in Waiting \union {"query"}, Len(found) < Len(queries),
         NEW ms \in Seq(Match), Matched(ms), Descending(ms),
         Current.kind = "track" => Stands(ms, Current.track),
         request.kind = "import" => Finds(ms)
  PROVE  LookupsInv'
<1> DEFINE k == Len(found) + 1
<1>1. /\ found' = Append(found, ms) /\ pc' = "query"
      /\ UNCHANGED <<world, request, todo, queries, rows, before>>
  BY DEF Matched, SearchStep
<1>2. WorldSound' /\ QueriesSound' /\ RowsSound' /\ request.kind # "submit"
  BY <1>1, SearchMoves, WorldParts DEF LookupsInv
<1>3. queries \in Seq(Valid) /\ found \in Seq(Seq(Match))
  BY DEF LookupsInv, QueriesSound, FoundSound
<1>4. StepsSound'
  BY <1>1, <1>2 DEF StepsSound
<1>5. Len(found) \in Nat /\ Len(queries) \in Nat /\ DOMAIN found = 1 .. Len(found)
  BY <1>3
<1>6. /\ found' \in Seq(Seq(Match)) /\ Len(found') = k /\ DOMAIN found' = 1 .. k
      /\ \A n \in 1 .. Len(found) : found'[n] = found[n]
      /\ found'[k] = ms
  <2> HIDE DEF Match
  <2>1. QED BY <1>1, <1>3, <1>5
<1>7. FoundSound'
  <2>1. ASSUME NEW n \in DOMAIN found', NEW i \in DOMAIN found'[n], NEW j \in DOMAIN found'[n], i < j
        PROVE  found'[n][i].score >= found'[n][j].score
    <3>1. CASE n = k
      BY <1>6, <2>1, <3>1 DEF Descending
    <3>2. CASE n \in 1 .. Len(found)
      <4>1. found'[n] = found[n] /\ n \in DOMAIN found
        BY <1>5, <1>6, <3>2
      <4>2. QED BY <2>1, <4>1 DEF LookupsInv, FoundSound
    <3>3. QED BY <1>5, <1>6, <3>1, <3>2
  <2>2. ASSUME NEW n \in DOMAIN found', KindOf(n)' = "track"
        PROVE  Stands(found[n], AskedFor(n))'
    <3>1. /\ KindOf(n) = "track" /\ AskedFor(n)' = AskedFor(n) /\ new_id' = new_id
      BY <1>1, <2>2 DEF KindOf, AskedFor, world
    <3>2. Stands(found'[n], AskedFor(n))
      <4>1. CASE n = k
        <5>1. Current = request.entries[queries[n]]
          BY <4>1 DEF Current
        <5>2. Stands(ms, AskedFor(n))
          BY <3>1, <5>1 DEF KindOf, AskedFor
        <5>3. QED BY <1>6, <4>1, <5>2
      <4>2. CASE n \in 1 .. Len(found)
        <5>1. found'[n] = found[n] /\ n \in DOMAIN found
          BY <1>5, <1>6, <4>2
        <5>2. QED BY <3>1, <5>1 DEF LookupsInv, FoundSound
      <4>3. QED BY <1>5, <1>6, <4>1, <4>2
    <3>3. QED BY <3>1, <3>2 DEF Stands
  <2>3. Len(found') <= Len(queries')
    BY <1>1, <1>3, <1>5, <1>6
  <2>4. QED BY <1>1, <1>6, <2>1, <2>2, <2>3 DEF FoundSound
<1>8. SearchSound'
  <2>1. SUFFICES ASSUME request.kind = "import"
                 PROVE  \A f \in before' :
                          f \in catalog'.near /\ catalog'.score[f] > MinScore /\ catalog'.terms[f] > 0 =>
                            (\E n \in DOMAIN found'[1] : found'[1][n].id = f) \/ Missed(f)'
    BY <1>1 DEF SearchSound
  <2>2. k = 1
    BY <1>3, <1>5, <2>1, ImporterAsksOnce
  <2>3. \A f : Missed(f)' = Missed(f)
    BY <1>1 DEF Missed, Crowd, Beaten, world
  <2>4. found'[1] = ms /\ catalog' = catalog /\ before' = before
    BY <1>1, <1>6, <2>2 DEF world
  <2>5. QED BY <2>1, <2>3, <2>4 DEF Finds
<1>9. QED BY <1>2, <1>4, <1>7, <1>8 DEF LookupsInv

\* No match is a legal answer to a lookup of a fingerprint.
LEMMA NoMatchKeeps ==
  ASSUME LookupsInv, pc \in Waiting \ {"resolve"}, Matched(<<>>), request.kind # "import"
  PROVE  LookupsInv'
<1>1. <<>> \in Seq(Match)
  BY EmptySeq
<1>2. Descending(<<>>)
  BY DEF Descending
<1>3. Len(found) < Len(queries) /\ Current.kind # "track"
  BY DEF LookupsInv, StepsSound, Waiting
<1>4. QED BY <1>1, <1>2, <1>3, MatchedKeeps

\* No match is the answer for an id that no track has.
LEMMA NoSuchTrackKeeps ==
  ASSUME LookupsInv, NoSuchTrack
  PROVE  LookupsInv'
<1>1. /\ pc = "query" /\ Len(found) < Len(queries) /\ Current.kind = "track"
      /\ Current.track \notin Tracks /\ Matched(<<>>)
  BY DEF NoSuchTrack, AsksTrack
<1>2. <<>> \in Seq(Match)
  BY EmptySeq
<1>3. Descending(<<>>) /\ Stands(<<>>, Current.track)
  BY <1>1 DEF Descending, Stands
<1>4. request.kind # "import"
  BY <1>1, ImportsNoTrack
<1>5. QED BY <1>1, <1>2, <1>3, <1>4, MatchedKeeps

\* A lookup may find nothing: without an fpstore, or after a timeout.
LEMMA EmptyAnswers ==
  ASSUME LookupsInv, NothingFound \/ FpstoreTimesOut \/ StatementTimeout
  PROVE  LookupsInv'
<1>1. CASE NothingFound
  BY <1>1, NoMatchKeeps DEF NothingFound, LookupsInv, StepsSound, Waiting
<1>2. CASE FpstoreTimesOut
  BY <1>2, NoMatchKeeps DEF FpstoreTimesOut, LookupsInv, StepsSound, Waiting
<1>3. CASE StatementTimeout
  BY <1>3, NoMatchKeeps DEF StatementTimeout, Fast, Waiting
<1>4. QED BY <1>1, <1>2, <1>3

\* The fpstore answers with nothing, or with fingerprints.
LEMMA FpstoreAnswersKeeps ==
  ASSUME LookupsInv, FpstoreAnswers
  PROVE  LookupsInv'
<1>1. pc = "fpstore" /\ request.kind # "import"
  BY DEF FpstoreAnswers, LookupsInv, StepsSound
<1>2. CASE Matched(<<>>)
  BY <1>1, <1>2, NoMatchKeeps DEF Waiting
<1>3. CASE \E s : SearchStep("database", s) /\ UNCHANGED <<found, before>>
  BY <1>1, <1>3, FpstoreNames
<1>4. QED BY <1>2, <1>3 DEF FpstoreAnswers

\* The track that another one was merged into stands for it, even when it is
\* merged in turn.
LEMMA ResolveTrackKeeps ==
  ASSUME LookupsInv, ResolveTrack
  PROVE  LookupsInv'
<1> DEFINE m == [id |-> 0, track |-> search.to, score |-> 1000]
<1>1. /\ pc = "resolve" /\ request.kind # "import"
      /\ search.to \in Tracks /\ new_id[search.to] = new_id[Current.track]
      /\ Len(found) < Len(queries) /\ Current.track \in Tracks
  BY DEF ResolveTrack, LookupsInv, StepsSound
<1>2. m \in Match /\ m.track = search.to
  BY <1>1 DEF Match
<1>3. Matched(<<m>>)
  BY DEF ResolveTrack
<1> HIDE DEF m
<1>4. <<m>> \in Seq(Match) /\ Len(<<m>>) = 1 /\ <<m>>[1] = m
  BY <1>2
<1>5. Descending(<<m>>)
  BY DEF Descending
<1>6. Stands(<<m>>, Current.track)
  BY <1>1, <1>2, <1>4 DEF Stands
<1>7. QED BY <1>1, <1>3, <1>4, <1>5, <1>6, MatchedKeeps DEF Waiting

\* The database is asked: what was there when the importer began is beyond the
\* id it read, or was a candidate.
LEMMA SearchDatabaseKeeps ==
  ASSUME LookupsInv, SearchDatabase
  PROVE  LookupsInv'
<1> DEFINE ids == {f \in Condition \intersect stored :
                     f \in catalog.near /\ catalog.score[f] > MinScore}
<1>1. pc = "database" /\ Matched(Ranked(ids))
  BY DEF SearchDatabase
<1>2. ids \subseteq Fps /\ before \subseteq stored
  BY WorldParts DEF LookupsInv
<1>3. ASSUME request.kind = "import", NEW f \in before,
             f \in catalog.near, catalog.score[f] > MinScore, catalog.terms[f] > 0
      PROVE  f \in ids \/ Missed(f)
  <2>1. f > search.max \/ f \in search.ids \/ Missed(f)
    BY <1>1, <1>3 DEF LookupsInv, SearchSound
  <2>2. f \in stored
    BY <1>2
  <2>3. ~ request.fpstore
    BY <1>3, RequestParts DEF LookupsInv
  <2>4. f > search.max => f \in Condition
    BY <1>3, <2>2, <2>3 DEF Condition, NotIndexed
  <2>5. f \in search.ids => f \in Condition
    BY DEF Condition
  <2>6. QED BY <1>3, <2>1, <2>2, <2>4, <2>5
<1> HIDE DEF ids
<1>4. /\ Ranked(ids) \in Seq(Match) /\ Descending(Ranked(ids))
      /\ ~ Fast => \A f \in ids : \E n \in DOMAIN Ranked(ids) : Ranked(ids)[n].id = f
  BY <1>2, RankedSound DEF LookupsInv
<1>5. request.kind = "import" => Finds(Ranked(ids))
  BY <1>3, <1>4 DEF Finds, Fast
<1>6. Len(found) < Len(queries) /\ Current.kind # "track"
  BY <1>1 DEF LookupsInv, StepsSound
<1>7. QED BY <1>1, <1>4, <1>5, <1>6, MatchedKeeps DEF Waiting

\* The answer: of the matches of a lookup, the first of each track.
LEMMA RespondKeeps ==
  ASSUME LookupsInv, Respond
  PROVE  LookupsInv'
<1>1. /\ pc = "query" /\ Len(found) = Len(queries) /\ pc' = "answered"
      /\ found' = IF Fast THEN [i \in DOMAIN found |-> Results(found[i])] ELSE found
      /\ UNCHANGED <<world, request, todo, queries, search, rows, before>>
  BY DEF Respond
<1>2. request.kind # "submit"
  BY <1>1 DEF LookupsInv, StepsSound
<1>3. Valid' = Valid /\ Queried' = Queried
  BY <1>1 DEF Valid, IsValid, Queried
<1>4. WorldSound' /\ StepsSound'
  BY <1>1, <1>2 DEF LookupsInv, WorldSound, world, StepsSound
<1>5. QueriesSound'
  BY <1>1, <1>3 DEF LookupsInv, QueriesSound
<1>6. RowsSound'
  <2>1. rows = <<>> /\ rows' = <<>>
    BY <1>1, <1>2 DEF LookupsInv, RowsSound
  <2>2. QED BY <1>1, <1>2, <2>1 DEF RowsSound
<1>7. found \in Seq(Seq(Match)) /\ Len(found) \in Nat /\ DOMAIN found = 1 .. Len(found)
  BY DEF LookupsInv, FoundSound
<1>8. \A i : KindOf(i)' = KindOf(i) /\ AskedFor(i)' = AskedFor(i)
  BY <1>1 DEF KindOf, AskedFor
<1>9. ASSUME NEW i \in DOMAIN found PROVE found[i] \in Seq(Match) /\ Descending(found[i])
  BY <1>7 DEF LookupsInv, FoundSound, Descending
<1>10. CASE Fast
  <2>1. found' = [i \in 1 .. Len(found) |-> Results(found[i])]
    BY <1>1, <1>7, <1>10
  <2>2. \A i \in DOMAIN found :
          /\ found'[i] \in Seq(Match) /\ Descending(found'[i]) /\ Distinct(found'[i])
          /\ Len(found[i]) <= 1 => found'[i] = found[i]
    BY <1>7, <1>9, <2>1, ResultsSound
  <2>3. found' \in [1 .. Len(found) -> Seq(Match)]
    BY <1>7, <2>1, <2>2
  <2>4. /\ found' \in Seq(Seq(Match)) /\ Len(found') = Len(queries') /\ Len(queries') \in Nat
        /\ DOMAIN found' = DOMAIN found
    <3> HIDE DEF Match
    <3>1. QED BY <1>1, <1>7, <2>3, ListIsSeq
  <2>5. ASSUME NEW i \in DOMAIN found, KindOf(i) = "track"
        PROVE  found'[i] = found[i] /\ Stands(found[i], AskedFor(i))
    <3>1. Stands(found[i], AskedFor(i))
      BY <2>5 DEF LookupsInv, FoundSound
    <3>2. Len(found[i]) <= 1
      <4>1. Len(found[i]) = 1 \/ found[i] = <<>>
        BY <3>1 DEF Stands
      <4>2. found[i] = <<>> => Len(found[i]) = 0
        OBVIOUS
      <4>3. Len(found[i]) = 0 \/ Len(found[i]) = 1
        BY <4>1, <4>2
      <4>4. \A n : n = 0 \/ n = 1 => n <= 1
        OBVIOUS
      <4>5. QED BY <4>3, <4>4
    <3>3. QED BY <2>2, <3>1, <3>2
  <2>6. FoundSound'
    <3>1. \A i \in DOMAIN found' : \A m, n \in DOMAIN found'[i] : m < n =>
            found'[i][m].score >= found'[i][n].score /\ found'[i][m].track # found'[i][n].track
      BY <2>2, <2>4 DEF Descending, Distinct
    <3>2. ASSUME NEW i \in DOMAIN found', KindOf(i)' = "track"
          PROVE  Stands(found[i], AskedFor(i))'
      <4>1. Stands(found'[i], AskedFor(i)) /\ AskedFor(i)' = AskedFor(i)
        BY <1>8, <2>4, <2>5, <3>2
      <4>2. QED BY <1>1, <4>1 DEF Stands, world
    <3>3. QED BY <1>1, <2>4, <3>1, <3>2 DEF FoundSound
  <2>7. SearchSound'
    BY <1>1, <1>10 DEF SearchSound, Fast
  <2>8. QED BY <1>4, <1>5, <1>6, <2>6, <2>7 DEF LookupsInv
<1>11. CASE ~ Fast
  <2>1. found' = found
    BY <1>1, <1>11
  <2>2. FoundSound'
    BY <1>1, <1>8, <1>11, <2>1 DEF LookupsInv, FoundSound, Stands, Fast, world
  <2>3. SearchSound'
    <3>1. \A f : Missed(f)' = Missed(f)
      BY <1>1 DEF Missed, Crowd, Beaten, world
    <3>2. QED BY <1>1, <2>1, <3>1 DEF LookupsInv, SearchSound, world
  <2>4. QED BY <1>4, <1>5, <1>6, <2>2, <2>3 DEF LookupsInv
<1>12. QED BY <1>10, <1>11

-----------------------------------------------------------------------------
(* Meanwhile *)

\* Fingerprints are imported and indexed: what was there before stays.
LEMMA GrowthKeeps ==
  ASSUME LookupsInv, Import \/ IndexUpdate
  PROVE  LookupsInv'
<1>1. /\ UNCHANGED <<catalog, track, new_id, merges, request, todo, queries, search, found, rows,
                     counted, pc, before>>
      /\ stored \subseteq stored' /\ stored' \subseteq Fps
      /\ indexed \subseteq indexed' /\ indexed' \subseteq stored' /\ maxDoc' \in Nat
  <2>1. stored \subseteq Fps /\ indexed \subseteq stored /\ maxDoc \in Nat /\ Fps \subseteq Nat
    BY WorldParts DEF LookupsInv
  <2>2. CASE Import
    BY <2>1, <2>2 DEF Import
  <2>3. CASE IndexUpdate
    <3>1. PICK read \in SUBSET {f \in stored : f > maxDoc} :
            read # {} /\ indexed' = indexed \union read /\ maxDoc' = Max(read)
      BY <2>3 DEF IndexUpdate
    <3>2. IsFiniteSet(read) /\ read \subseteq Int /\ read \subseteq Nat
      <4>1. read \subseteq Fps
        BY <2>1
      <4>2. IsFiniteSet(Fps)
        BY LookupsAssumption
      <4>3. IsFiniteSet(read)
        BY <4>1, <4>2, FS_Subset
      <4>4. read \subseteq Nat
        BY <2>1, <4>1
      <4>5. QED BY <4>3, <4>4
    <3>3. Max(read) \in Nat
      BY <3>1, <3>2, Extremes
    <3>4. QED BY <2>1, <2>3, <3>1, <3>3 DEF IndexUpdate
  <2>4. QED BY <2>2, <2>3
<1>2. WorldSound'
  BY <1>1, WorldParts DEF LookupsInv, WorldSound
<1>3. Valid' = Valid /\ Queried' = Queried /\ Done' = Done /\ Current' = Current
  BY <1>1 DEF Valid, IsValid, Queried, Done, Current
<1>4. QueriesSound'
  BY <1>1, <1>3 DEF LookupsInv, QueriesSound
<1>5. StepsSound'
  BY <1>1, <1>3 DEF LookupsInv, StepsSound
<1>6. FoundSound'
  BY <1>1 DEF LookupsInv, FoundSound, Stands, AskedFor, KindOf
<1>7. RowsSound'
  BY <1>1, <1>3 DEF LookupsInv, RowsSound, RowsOf
<1>8. SearchSound'
  <2>1. \A f : Missed(f)' = Missed(f)
    BY <1>1 DEF Missed, Crowd, Beaten
  <2>2. QED BY <1>1, <2>1 DEF LookupsInv, SearchSound
<1>9. QED BY <1>2, <1>4, <1>5, <1>6, <1>7, <1>8 DEF LookupsInv

\* A track is merged into another one: tracks that had one track standing for
\* them still have.
LEMMA MergeTracksKeeps ==
  ASSUME LookupsInv, NEW t \in Tracks, NEW u \in Tracks, MergeTracks(t, u)
  PROVE  LookupsInv'
<1>1. /\ UNCHANGED <<catalog, stored, indexed, maxDoc, request, todo, queries, search, found, rows, counted,
                     pc, before>>
      /\ t # u /\ new_id[t] = t /\ new_id[u] = u
      /\ track' = [f \in Fps |-> IF track[f] = t THEN u ELSE track[f]]
      /\ new_id' = [s \in Tracks |-> IF new_id[s] = t THEN u ELSE new_id[s]]
      /\ Searching
  BY DEF MergeTracks
<1>2. /\ track \in [Fps -> Tracks] /\ new_id \in [Tracks -> Tracks]
      /\ \A s \in Tracks : new_id[new_id[s]] = new_id[s]
  BY DEF LookupsInv, WorldSound
<1>3. \A s, v \in Tracks : new_id[s] = new_id[v] => new_id'[s] = new_id'[v]
  BY <1>1
<1>4. WorldSound'
  <2>1. track' \in [Fps -> Tracks] /\ new_id' \in [Tracks -> Tracks]
    BY <1>1, <1>2
  <2>2. ASSUME NEW s \in Tracks PROVE new_id'[new_id'[s]] = new_id'[s]
    <3>1. CASE new_id[s] = t
      BY <1>1, <3>1
    <3>2. CASE new_id[s] # t
      BY <1>1, <1>2, <3>2
    <3>3. QED BY <3>1, <3>2
  <2>3. QED BY <1>1, <2>1, <2>2 DEF LookupsInv, WorldSound
<1>5. Valid' = Valid /\ Queried' = Queried /\ Done' = Done /\ Current' = Current
  BY <1>1 DEF Valid, IsValid, Queried, Done, Current
<1>6. QueriesSound'
  BY <1>1, <1>5 DEF LookupsInv, QueriesSound
<1>7. queries \in Seq(Valid) /\ found \in Seq(Seq(Match)) /\ Len(found) <= Len(queries)
  BY DEF LookupsInv, QueriesSound, FoundSound
<1>8. StepsSound'
  BY <1>1, <1>3, <1>5 DEF LookupsInv, StepsSound
<1>9. ASSUME NEW ms \in Seq(Match), NEW s, Stands(ms, s)
      PROVE  Stands(ms, s)'
  <2>1. CASE s \in Tracks
    <3>1. Len(ms) = 1 /\ new_id[ms[1].track] = new_id[s]
      BY <1>9, <2>1 DEF Stands
    <3>2. ms[1] \in Match
      <4>1. 1 \in 1 .. Len(ms)
        BY <3>1
      <4>2. QED BY <4>1, ElementOfSeq
    <3>3. ms[1].track \in Tracks
      BY <3>2 DEF Match
    <3>4. new_id'[ms[1].track] = new_id'[s]
      BY <1>3, <2>1, <3>1, <3>3
    <3>5. QED BY <2>1, <3>1, <3>4 DEF Stands
  <2>2. CASE s \notin Tracks
    BY <1>9, <2>2 DEF Stands
  <2>3. QED BY <2>1, <2>2
<1>10. FoundSound'
  <2>1. ASSUME NEW i \in DOMAIN found, KindOf(i) = "track"
        PROVE  Stands(found[i], AskedFor(i))'
    <3>1. Stands(found[i], AskedFor(i)) /\ found[i] \in Seq(Match)
      BY <1>7, <2>1 DEF LookupsInv, FoundSound
    <3>2. found' = found /\ AskedFor(i)' = AskedFor(i)
      BY <1>1 DEF AskedFor
    <3>3. QED BY <1>9, <3>1, <3>2 DEF Stands
  <2>2. \A i : KindOf(i)' = KindOf(i)
    BY <1>1 DEF KindOf
  <2>3. /\ found \in Seq(Seq(Match)) /\ Len(found) <= Len(queries)
        /\ pc = "parse" => found = <<>>
        /\ pc = "answered" => Len(found) = Len(queries)
        /\ \A i \in DOMAIN found : \A m, n \in DOMAIN found[i] : m < n =>
             /\ found[i][m].score >= found[i][n].score
             /\ pc = "answered" /\ request.kind = "lookup" => found[i][m].track # found[i][n].track
    BY DEF LookupsInv, FoundSound
  <2>4. /\ found' = found /\ queries' = queries /\ request' = request /\ pc' = pc
    BY <1>1
  <2>5. QED BY <2>1, <2>2, <2>3, <2>4 DEF FoundSound
<1>11. RowsSound'
  BY <1>1, <1>5 DEF LookupsInv, RowsSound, RowsOf
<1>12. SearchSound'
  <2>1. \A f : Missed(f)' = Missed(f)
    BY <1>1 DEF Missed, Crowd, Beaten
  <2>2. QED BY <1>1, <2>1 DEF LookupsInv, SearchSound
<1>13. QED BY <1>4, <1>6, <1>8, <1>10, <1>11, <1>12 DEF LookupsInv

-----------------------------------------------------------------------------
(* The invariant and what follows from it *)

\* A request arrives.
LEMMA LookupsInitEstablishes == LookupsInit => LookupsInv
<1> SUFFICES ASSUME LookupsInit PROVE LookupsInv
  OBVIOUS
<1>1. /\ request \in Requests /\ catalog \in Catalogs
      /\ track \in IF request.kind = "lookup" THEN [Fps -> Tracks]
                   ELSE [Fps -> {CHOOSE t \in Tracks : TRUE}]
      /\ new_id = [t \in Tracks |-> t]
      /\ stored \in SUBSET Fps
      /\ indexed \in IF request.kind = "import" THEN SUBSET stored ELSE {{}}
      /\ maxDoc = Max(indexed \union {0})
      /\ todo = DOMAIN request.entries /\ queries = <<>> /\ found = <<>> /\ rows = <<>>
      /\ pc = "parse" /\ before = {}
  BY DEF LookupsInit
<1>2. WorldSound
  <2>1. (CHOOSE t \in Tracks : TRUE) \in Tracks
    BY LookupsAssumption
  <2>2. track \in [Fps -> Tracks]
    BY <1>1, <2>1
  <2>3. new_id \in [Tracks -> Tracks] /\ \A t \in Tracks : new_id[new_id[t]] = new_id[t]
    BY <1>1
  <2>4. stored \subseteq Fps /\ indexed \subseteq stored /\ before \subseteq stored
    BY <1>1
  <2>5. maxDoc \in Nat
    <3>1. Cardinality(Fps) \in Nat /\ Fps = 1 .. Cardinality(Fps) /\ IsFiniteSet(Fps)
      BY LookupsAssumption, FS_CardinalityType
    <3>2. Fps \subseteq Nat
      BY <3>1
    <3>3. indexed \union {0} \subseteq Nat /\ indexed \union {0} \subseteq Int
      BY <2>4, <3>2
    <3>4. IsFiniteSet(indexed \union {0})
      BY <2>4, <3>1, FS_Subset, FS_AddElement
    <3>5. Max(indexed \union {0}) \in indexed \union {0}
      BY <3>3, <3>4, Extremes
    <3>6. QED BY <1>1, <3>3, <3>5
  <2>6. QED BY <1>1, <2>2, <2>3, <2>4, <2>5 DEF WorldSound
<1>3. QueriesSound
  <2>1. Queried = {} /\ Valid \subseteq todo
    BY <1>1 DEF Queried, Valid
  <2>2. QED BY <1>1, <2>1 DEF QueriesSound
<1>4. StepsSound /\ RowsSound /\ SearchSound
  BY <1>1 DEF StepsSound, RowsSound, SearchSound
<1>5. FoundSound
  <2>1. found \in Seq(Seq(Match)) /\ Len(found) <= Len(queries) /\ DOMAIN found = {}
    BY <1>1, EmptySeq
  <2>2. QED BY <1>1, <2>1 DEF FoundSound
<1>6. QED BY <1>2, <1>3, <1>4, <1>5 DEF LookupsInv

\* Every step of a request, and of what goes on meanwhile, keeps the invariant.
LEMMA LookupsStepKeeps == LookupsInv /\ [LookupsNext]_lvars => LookupsInv'
<1> SUFFICES ASSUME LookupsInv, [LookupsNext]_lvars PROVE LookupsInv'
  OBVIOUS
<1>1. CASE ParseEntry \/ NoEntries \/ Parsed
  BY <1>1, ParseEntryKeeps, NoEntriesKeeps, ParsedKeeps
<1>2. CASE Insert \/ CommitRows \/ InsertFails
  BY <1>2, InsertKeeps, SubmissionEnds
<1>3. CASE ReadTrack \/ NoSuchTrack \/ ResolveTrack
  BY <1>3, ReadTrackKeeps, NoSuchTrackKeeps, ResolveTrackKeeps
<1>4. CASE SearchStarts \/ NothingFound \/ FpstoreAnswers \/ FpstoreTimesOut \/ SearchFails
  BY <1>4, SearchStartsKeeps, EmptyAnswers, FpstoreAnswersKeeps, FailsKeeps
<1>5. CASE ReadMaxId \/ SearchIndex \/ SearchDatabase \/ StatementTimeout
  BY <1>5, ReadMaxIdKeeps, SearchIndexKeeps, SearchDatabaseKeeps, EmptyAnswers
<1>6. CASE Respond
  BY <1>6, RespondKeeps
<1>7. CASE Import \/ IndexUpdate
  BY <1>7, GrowthKeeps
<1>8. CASE \E t, u \in Tracks : MergeTracks(t, u)
  BY <1>8, MergeTracksKeeps
<1>9. CASE UNCHANGED lvars
  <2>1. UNCHANGED <<catalog, track, new_id, stored, indexed, maxDoc, request, todo, queries, search,
                    found, rows, pc, before>>
    BY <1>9 DEF lvars, world
  <2>2. Valid' = Valid /\ Queried' = Queried /\ Done' = Done /\ Current' = Current
    BY <2>1 DEF Valid, IsValid, Queried, Done, Current
  <2>3. WorldSound' /\ QueriesSound' /\ StepsSound'
    BY <2>1, <2>2 DEF LookupsInv, WorldSound, QueriesSound, StepsSound
  <2>4. FoundSound' /\ RowsSound'
    BY <2>1, <2>2 DEF LookupsInv, FoundSound, KindOf, Stands, AskedFor, RowsSound, RowsOf
  <2>5. \A f : Missed(f)' = Missed(f)
    BY <2>1 DEF Missed, Crowd, Beaten
  <2>6. SearchSound'
    BY <2>1, <2>5 DEF LookupsInv, SearchSound
  <2>7. QED BY <2>3, <2>4, <2>6 DEF LookupsInv
<1>10. QED BY <1>1, <1>2, <1>3, <1>4, <1>5, <1>6, <1>7, <1>8, <1>9 DEF LookupsNext

\* LookupsInv holds of every request: what is parsed, found and inserted so far is
\* what the good entries so far ask for, and what an importer has still to find is
\* beyond the id it read.
THEOREM LookupsInvariance == LookupsSpec => []LookupsInv
<1>1. LookupsInit => LookupsInv
  BY LookupsInitEstablishes
<1>2. LookupsInv /\ [LookupsNext]_lvars => LookupsInv'
  BY LookupsStepKeeps
<1>3. QED BY <1>1, <1>2, PTL DEF LookupsSpec

\* The invariant gives what is promised of an answer.
LEMMA ServedByInv == LookupsInv => GoodEntriesServed
<1> SUFFICES ASSUME LookupsInv PROVE GoodEntriesServed
  OBVIOUS
<1>1. pc = "error" => Valid = {} \/ Cardinality(Valid) > MaxQueries
  BY DEF LookupsInv, QueriesSound
<1>2. pc \in {"error", "failed"} => rows = <<>>
  BY DEF LookupsInv, RowsSound
<1>3. ASSUME pc = "answered"
      PROVE  /\ IF request.kind = "lookup" /\ ~ request.batch THEN queries = <<Min(Valid)>>
                ELSE /\ {queries[n] : n \in DOMAIN queries} = Valid
                     /\ \A m, n \in DOMAIN queries : m < n => queries[m] < queries[n]
             /\ Len(found) = Len(queries)
  BY <1>3 DEF LookupsInv, QueriesSound, FoundSound, Queried
<1>4. found \in Seq(Seq(Match)) /\ DOMAIN found = 1 .. Len(found) /\ Len(found) \in Nat
  BY DEF LookupsInv, FoundSound
<1>5. ASSUME pc = "answered", request.kind = "lookup", NEW i \in DOMAIN found,
             NEW m \in 1 .. MaxResults, NEW n \in 1 .. MaxResults, m < n, n <= Len(found[i])
      PROVE  /\ found[i][m].track # found[i][n].track
             /\ found[i][m].score >= found[i][n].score
  <2>1. found[i] \in Seq(Match) /\ MaxResults \in Nat
    BY <1>4, LookupsAssumption
  <2>2. DOMAIN found[i] = 1 .. Len(found[i]) /\ Len(found[i]) \in Nat
    BY <2>1, LenProperties
  <2>3. m \in DOMAIN found[i] /\ n \in DOMAIN found[i]
    BY <1>5, <2>1, <2>2
  <2>4. QED BY <1>5, <2>3 DEF LookupsInv, FoundSound
<1>6. \A i \in DOMAIN found : KindOf(i) = "track" => Stands(found[i], AskedFor(i))
  BY DEF LookupsInv, FoundSound
<1>7. ASSUME pc = "answered", request.kind = "submit", NEW i \in DOMAIN request.entries
      PROVE  Cardinality({n \in DOMAIN rows : rows[n] = i})
               = IF i \in Valid THEN RowsOf(request.entries[i]) ELSE 0
  <2>1. Done = Valid
    <3>1. queries \in Seq(Valid)
      BY DEF LookupsInv, QueriesSound
    <3>2. DOMAIN found = DOMAIN queries
      BY <1>3, <1>4, <1>7, <3>1
    <3>3. {queries[n] : n \in DOMAIN queries} = Valid
      BY <1>3, <1>7
    <3>4. QED BY <3>2, <3>3 DEF Done
  <2>2. QED BY <1>7, <2>1 DEF LookupsInv, RowsSound
<1>8. QED BY <1>1, <1>2, <1>3, <1>5, <1>6, <1>7 DEF GoodEntriesServed

\* For any requests and tracks: a request is refused only without a good entry or
\* with too many, and what is answered are the good entries, in order, each once,
\* with the rows of a submission or the tracks that still stand for what was asked.
THEOREM EntriesAreServed == LookupsSpec => []GoodEntriesServed
BY LookupsInvariance, ServedByInv, PTL

\* The invariant gives what is promised to the importer.
LEMMA FoundByInv == LookupsInv => NoneBetween
<1> SUFFICES ASSUME LookupsInv, pc = "answered", request.kind = "import", NEW f \in before,
                    f \in catalog.near, catalog.score[f] > MinScore, catalog.terms[f] > 0
             PROVE  \/ \E n \in DOMAIN found[1] : found[1][n].id = f
                    \/ Cardinality(Crowd(f)) >= MaxCandidates \/ Beaten(f)
  BY DEF NoneBetween
<1>1. PICK i \in DOMAIN request.entries :
        DOMAIN request.entries = {i} /\ request.entries[i].kind = "fp"
  BY RequestParts DEF LookupsInv
<1>2. i \in Valid
  BY <1>1 DEF Valid, IsValid, ParseQuery
<1>3. Queried = Valid /\ Len(found) = Len(queries) /\ queries \in Seq(Valid)
  BY DEF LookupsInv, QueriesSound, FoundSound
<1>4. found # <<>>
  <2>1. queries # <<>>
    BY <1>2, <1>3 DEF Queried
  <2>2. Len(queries) # 0
    BY <1>3, <2>1, EmptySeq
  <2>3. QED BY <1>3, <2>2
<1>5. QED BY <1>4 DEF LookupsInv, SearchSound, Missed

\* For any catalog, however imports and updates of the index fall between the steps
\* of an importer's search: it finds every similar fingerprint that was there when
\* it began, but for those that the limits of the index keep out.
THEOREM NothingBetween == LookupsSpec => []NoneBetween
BY LookupsInvariance, FoundByInv, PTL

-----------------------------------------------------------------------------
(* Statistics: every lookup is counted once, for any number of counters, of
   workers and of runs that overlap *)

Pcs == {"off", "next", "key", "upserted", "decremented"}

RunType == [pc : {"off", "next", "key", "upserted", "decremented"},
            seen : [Keys -> Int], todo : SUBSET Keys, key : Keys]

\* The hash is empty, every worker is off.
LEMMA InitEstablishes == Init => TypeOK
<1> SUFFICES ASSUME Init PROVE TypeOK
  OBVIOUS
<1> USE StatsAssumption DEF Init
<1>1. Off \in RunType
  BY DEF Off, Zero, RunType
<1>2. run \in [Workers -> RunType]
  BY <1>1
<1>3. QED BY <1>2 DEF TypeOK, Zero, RunType

\* The parts of a run that has a legal state.
LEMMA RunParts ==
  ASSUME TypeOK, NEW w \in Workers
  PROVE  /\ Key(w) \in Keys /\ Seen(w) \in Int
         /\ run[w].todo \subseteq Keys /\ run[w].seen \in [Keys -> Int]
BY DEF TypeOK, Key, Seen

\* What becomes of the runs when one worker moves.
LEMMA Moved ==
  ASSUME TypeOK, NEW w \in Workers, NEW q \in RunType, run' = [run EXCEPT ![w] = q]
  PROVE  /\ run' \in [Workers -> RunType]
         /\ run'[w] = q /\ \A v \in Workers \ {w} : run'[v] = run[v]
BY DEF TypeOK, RunType

\* A run that goes on reads the same hash and works on the same key.
LEMMA GotoMoves ==
  ASSUME TypeOK, NEW w \in Workers, NEW next \in Pcs, Goto(w, next)
  PROVE  /\ run' \in [Workers -> RunType]
         /\ run'[w].pc = next /\ Key(w)' = Key(w) /\ Seen(w)' = Seen(w)
         /\ \A v \in Workers \ {w} : run'[v] = run[v]
<1> DEFINE q == [run[w] EXCEPT !.pc = next]
<1>1. run[w] \in RunType
  BY DEF TypeOK, RunType
<1>2. q \in RunType
  BY <1>1 DEF RunType, Pcs
<1>3. run' = [run EXCEPT ![w] = q]
  BY DEF Goto
<1>4. q.pc = next /\ q.key = run[w].key /\ q.seen = run[w].seen
  BY <1>1 DEF RunType
<1> HIDE DEF q
<1>5. QED BY <1>2, <1>3, <1>4, Moved DEF Key, Seen

\* A run that ends leaves its worker off.
LEMMA OffMoves ==
  ASSUME TypeOK, NEW w \in Workers, run' = [run EXCEPT ![w] = Off]
  PROVE  /\ run' \in [Workers -> RunType] /\ run'[w].pc = "off"
         /\ \A v \in Workers \ {w} : run'[v] = run[v]
<1>1. Off \in RunType /\ Off.pc = "off"
  BY StatsAssumption DEF Off, Zero, RunType
<1> HIDE DEF Off
<1>2. QED BY <1>1, Moved

\* A run that begins has read the hash.
LEMMA FetchMoves ==
  ASSUME TypeOK, NEW w \in Workers, Fetch(w)
  PROVE  /\ run' \in [Workers -> RunType] /\ run'[w].pc = "next"
         /\ \A v \in Workers \ {w} : run'[v] = run[v]
<1> DEFINE q == [Off EXCEPT !.pc = "next", !.seen = counter, !.todo = present]
<1>1. Off \in RunType
  BY StatsAssumption DEF Off, Zero, RunType
<1>2. q \in RunType /\ q.pc = "next"
  BY <1>1 DEF RunType, TypeOK
<1>3. run' = [run EXCEPT ![w] = q]
  BY DEF Fetch
<1> HIDE DEF q
<1>4. QED BY <1>2, <1>3, Moved

\* A run takes a key it has not done.
LEMMA TakeMoves ==
  ASSUME TypeOK, NEW w \in Workers, Take(w)
  PROVE  /\ run' \in [Workers -> RunType] /\ run'[w].pc = "key"
         /\ \A v \in Workers \ {w} : run'[v] = run[v]
<1>1. PICK k \in run[w].todo : /\ run' = [run EXCEPT ![w] = [run[w] EXCEPT !.pc = "key", !.key = k,
                                                        !.todo = run[w].todo \ {k}]]
  BY DEF Take
<1> DEFINE q == [run[w] EXCEPT !.pc = "key", !.key = k, !.todo = run[w].todo \ {k}]
<1>2. run[w] \in RunType
  BY DEF TypeOK, RunType
<1>3. q \in RunType /\ q.pc = "key"
  BY <1>2 DEF RunType
<1>4. run' = [run EXCEPT ![w] = q]
  BY <1>1
<1> HIDE DEF q
<1>5. QED BY <1>3, <1>4, Moved

\* When one worker moves, the sum of what is in both places changes by as much
\* as this worker's part of it.
LEMMA TwiceMoves ==
  ASSUME TypeOK, run' \in [Workers -> RunType], NEW w \in Workers,
         \A v \in Workers \ {w} : run'[v] = run[v], NEW k \in Keys
  PROVE  /\ Twice(k) \in Int /\ InBoth(w, k) \in Int /\ InBoth(w, k)' \in Int
         /\ Twice(k)' = Twice(k) + InBoth(w, k)' - InBoth(w, k)
<1> DEFINE f == [v \in Workers |-> InBoth(v, k)]
           g == [v \in Workers |-> InBoth(v, k)']
<1>1. \A v \in Workers : InBoth(v, k) \in Int /\ InBoth(v, k)' \in Int
  BY DEF InBoth, Key, Seen, TypeOK, RunType
<1>2. \A v \in Workers \ {w} : InBoth(v, k)' = InBoth(v, k)
  BY DEF InBoth, Key, Seen
<1>3. Twice(k) = SumFunctionOnSet(f, Workers) /\ Twice(k)' = SumFunctionOnSet(g, Workers)
  BY DEF Twice
<1>4. /\ \A v \in Workers : f[v] = InBoth(v, k) /\ g[v] = InBoth(v, k)'
      /\ \A v \in Workers : f[v] \in Int /\ g[v] \in Int
      /\ \A v \in Workers \ {w} : f[v] = g[v]
  BY <1>1, <1>2
<1>5. IsFiniteSet(Workers)
  BY StatsAssumption
<1> HIDE DEF f, g
<1>6. SumFunctionOnSet(g, Workers) = SumFunctionOnSet(f, Workers) + g[w] - f[w]
  BY <1>4, <1>5, SumChanged
<1>7. SumFunctionOnSet(f, Workers) \in Int
  BY <1>4, <1>5, SumInt
<1>8. QED BY <1>1, <1>3, <1>4, <1>6, <1>7

\* Worker w holds the row of its key.
Held(w) == run[w].pc \in {"upserted", "decremented"}

\* What a step of worker w has to respect: its own part in the sums, the row it
\* holds before and after, and the other tables.
LEMMA WorkerKeeps ==
  ASSUME StatsInv, run' \in [Workers -> RunType], NEW w \in Workers,
         \A v \in Workers \ {w} : run'[v] = run[v],
         UNCHANGED role, UNCHANGED lookups,
         counter' \in [Keys -> Int], present' \subseteq Keys, db' \in [Keys -> Int],
         open' \in [Keys -> Int], drift' \in [Keys -> Int],
         \A k \in Keys \ present' : counter'[k] = 0,
         \A k \in Keys : db'[k] + open'[k] + counter'[k] + drift'[k] - InBoth(w, k)'
                         = db[k] + open[k] + counter[k] + drift[k] - InBoth(w, k),
         role = "slave" => \A k \in Keys : open'[k] = 0,
         \A k \in Keys : ~ (Held(w) /\ Key(w) = k) /\ ~ (Held(w)' /\ Key(w)' = k) => open'[k] = open[k],
         role = "master" /\ Held(w) /\ ~ (Held(w)' /\ Key(w)' = Key(w)) => open'[Key(w)] = 0,
         role = "master" /\ Held(w)' => open'[Key(w)'] = Seen(w)' /\ ~ RowLocked(w, Key(w)')
  PROVE  StatsInv'
<1>1. TypeOK /\ RowsHeld /\ CountedOnce
  BY DEF StatsInv
<1>2. \A v \in Workers \ {w} : Key(v)' = Key(v) /\ Seen(v)' = Seen(v) /\ Held(v)' = Held(v)
  BY DEF Key, Seen, Held
<1>3. CountedOnce'
  <2> SUFFICES ASSUME NEW k \in Keys
               PROVE  db'[k] + open'[k] + counter'[k] - Twice(k)' + drift'[k] = lookups'[k]
    BY DEF CountedOnce
  <2>1. db[k] + open[k] + counter[k] - Twice(k) + drift[k] = lookups[k]
    BY <1>1 DEF CountedOnce
  <2>2. /\ Twice(k) \in Int /\ InBoth(w, k) \in Int /\ InBoth(w, k)' \in Int
        /\ Twice(k)' = Twice(k) + InBoth(w, k)' - InBoth(w, k)
    BY <1>1, TwiceMoves
  <2>3. /\ db[k] \in Int /\ open[k] \in Int /\ counter[k] \in Int /\ drift[k] \in Int
        /\ db'[k] \in Int /\ open'[k] \in Int /\ counter'[k] \in Int /\ drift'[k] \in Int
        /\ lookups[k] \in Int
    BY <1>1 DEF TypeOK
  <2>4. db'[k] + open'[k] + counter'[k] + drift'[k] - InBoth(w, k)'
          = db[k] + open[k] + counter[k] + drift[k] - InBoth(w, k)
    OBVIOUS
  <2>5. lookups'[k] = lookups[k]
    OBVIOUS
  <2> DEFINE t == Twice(k)
             t2 == Twice(k)'
             b == InBoth(w, k)
             b2 == InBoth(w, k)'
  <2>6. /\ t \in Int /\ b \in Int /\ b2 \in Int /\ t2 = t + b2 - b
        /\ db[k] + open[k] + counter[k] - t + drift[k] = lookups[k]
        /\ db'[k] + open'[k] + counter'[k] + drift'[k] - b2
             = db[k] + open[k] + counter[k] + drift[k] - b
    BY <2>1, <2>2, <2>4
  <2> HIDE DEF t, t2, b, b2
  <2>7. db'[k] + open'[k] + counter'[k] - t2 + drift'[k] = lookups'[k]
    BY <2>3, <2>5, <2>6
  <2>8. QED BY <2>7 DEF t2
<1>4. ASSUME NEW k \in Keys, open'[k] # 0
      PROVE  \E v \in Workers : Held(v)' /\ Key(v)' = k
  <2>1. role = "master"
    BY <1>1, <1>4 DEF TypeOK
  <2>2. CASE Held(w) /\ Key(w) = k
    BY <1>4, <2>1, <2>2
  <2>3. CASE ~ (Held(w) /\ Key(w) = k) /\ ~ (Held(w)' /\ Key(w)' = k)
    <3>1. open[k] # 0
      BY <1>4, <2>3
    <3>2. PICK v \in Workers : Held(v) /\ Key(v) = k
      BY <1>1, <3>1 DEF TypeOK, Held
    <3>3. QED BY <1>2, <2>3, <3>2
  <2>4. QED BY <2>2, <2>3
<1>5. RowsHeld'
  <2>1. CASE role = "slave"
    BY <2>1 DEF RowsHeld
  <2>2. CASE role = "master"
    <3>1. ASSUME NEW v \in Workers, Held(v)'
          PROVE  open'[Key(v)'] = Seen(v)' /\ ~ RowLocked(v, Key(v))'
      <4>1. CASE v = w
        BY <1>2, <2>2, <3>1, <4>1 DEF RowLocked, Held
      <4>2. CASE v # w
        <5>1. Held(v) /\ Key(v)' = Key(v) /\ Seen(v)' = Seen(v)
          BY <1>2, <3>1, <4>2
        <5>2. open[Key(v)] = Seen(v) /\ ~ RowLocked(v, Key(v))
          BY <1>1, <2>2, <5>1 DEF RowsHeld, Held
        <5>3. ~ (Held(w) /\ Key(w) = Key(v))
          BY <4>2, <5>2 DEF RowLocked, Held
        <5>4. ~ (Held(w)' /\ Key(w)' = Key(v))
          BY <2>2, <4>2, <5>1 DEF RowLocked, Held
        <5>5. Key(v) \in Keys
          BY <1>1, RunParts
        <5>6. open'[Key(v)] = open[Key(v)]
          BY <5>3, <5>4, <5>5
        <5>7. ~ RowLocked(v, Key(v))'
          BY <1>2, <4>2, <5>1, <5>2, <5>4 DEF RowLocked, Held
        <5>8. QED BY <5>1, <5>2, <5>6, <5>7
      <4>3. QED BY <4>1, <4>2
    <3>2. QED BY <2>2, <3>1 DEF RowsHeld, Held
  <2>3. QED BY <1>1, <2>1, <2>2 DEF TypeOK
<1>6. TypeOK'
  BY <1>1, <1>4 DEF TypeOK, RunType, Held
<1>7. QED BY <1>3, <1>5, <1>6 DEF StatsInv

\* Every action keeps the invariant, one step for each.
LEMMA StatsStep ==
  ASSUME StatsInv, [Next]_vars
  PROVE  StatsInv'
<1> USE DEF Held
<1>0. TypeOK /\ RowsHeld /\ CountedOnce
  BY DEF StatsInv
<1>1. ASSUME NEW w \in Workers PROVE /\ Key(w) \in Keys /\ Seen(w) \in Int
                                     /\ run[w].pc \in Pcs
  BY <1>0, RunParts DEF TypeOK, Pcs
<1>2. ASSUME NEW w \in Workers, Fetch(w) PROVE StatsInv'
  <2>1. /\ run' \in [Workers -> RunType] /\ \A v \in Workers \ {w} : run'[v] = run[v]
        /\ run'[w].pc = "next"
    BY <1>2, <1>0, FetchMoves
  <2>2. /\ counter' \in [Keys -> Int] /\ present' \subseteq Keys /\ db' \in [Keys -> Int]
        /\ open' \in [Keys -> Int] /\ drift' \in [Keys -> Int]
        /\ \A k \in Keys \ present' : counter'[k] = 0
        /\ UNCHANGED <<role, lookups>>
    BY <1>2, <1>0, <1>1 DEF Fetch, TypeOK, bounds
  <2>3. \A k \in Keys : db'[k] + open'[k] + counter'[k] + drift'[k] - InBoth(w, k)'
                        = db[k] + open[k] + counter[k] + drift[k] - InBoth(w, k)
    BY <1>2, <1>0, <1>1, <2>1 DEF Fetch, TypeOK, RowsHeld, InBoth, Pcs
  <2>4. /\ role = "slave" => \A k \in Keys : open'[k] = 0
        /\ \A k \in Keys : ~ (Held(w) /\ Key(w) = k) /\ ~ (Held(w)' /\ Key(w)' = k)
                             => open'[k] = open[k]
        /\ role = "master" /\ Held(w) /\ ~ (Held(w)' /\ Key(w)' = Key(w)) => open'[Key(w)] = 0
        /\ role = "master" /\ Held(w)' => open'[Key(w)'] = Seen(w)' /\ ~ RowLocked(w, Key(w)')
    BY <1>2, <1>0, <1>1, <2>1 DEF Fetch, TypeOK, RowsHeld, Pcs
  <2>5. QED BY <2>1, <2>2, <2>3, <2>4, WorkerKeeps
<1>3. ASSUME NEW w \in Workers, Take(w) PROVE StatsInv'
  <2>1. /\ run' \in [Workers -> RunType] /\ \A v \in Workers \ {w} : run'[v] = run[v]
        /\ run'[w].pc = "key"
    BY <1>3, <1>0, TakeMoves
  <2>2. /\ counter' \in [Keys -> Int] /\ present' \subseteq Keys /\ db' \in [Keys -> Int]
        /\ open' \in [Keys -> Int] /\ drift' \in [Keys -> Int]
        /\ \A k \in Keys \ present' : counter'[k] = 0
        /\ UNCHANGED <<role, lookups>>
    BY <1>3, <1>0, <1>1 DEF Take, TypeOK, bounds
  <2>3. \A k \in Keys : db'[k] + open'[k] + counter'[k] + drift'[k] - InBoth(w, k)'
                        = db[k] + open[k] + counter[k] + drift[k] - InBoth(w, k)
    BY <1>3, <1>0, <1>1, <2>1 DEF Take, TypeOK, RowsHeld, InBoth, Pcs
  <2>4. /\ role = "slave" => \A k \in Keys : open'[k] = 0
        /\ \A k \in Keys : ~ (Held(w) /\ Key(w) = k) /\ ~ (Held(w)' /\ Key(w)' = k)
                             => open'[k] = open[k]
        /\ role = "master" /\ Held(w) /\ ~ (Held(w)' /\ Key(w)' = Key(w)) => open'[Key(w)] = 0
        /\ role = "master" /\ Held(w)' => open'[Key(w)'] = Seen(w)' /\ ~ RowLocked(w, Key(w)')
    BY <1>3, <1>0, <1>1, <2>1 DEF Take, TypeOK, RowsHeld, Pcs
  <2>5. QED BY <2>1, <2>2, <2>3, <2>4, WorkerKeeps
<1>4. ASSUME NEW w \in Workers, DropZero(w) PROVE StatsInv'
  <2>1. /\ run' \in [Workers -> RunType] /\ \A v \in Workers \ {w} : run'[v] = run[v]
        /\ run'[w].pc = "next" /\ Key(w)' = Key(w) /\ Seen(w)' = Seen(w)
    BY <1>4, <1>0, GotoMoves DEF DropZero, Pcs
  <2>2. /\ counter' \in [Keys -> Int] /\ present' \subseteq Keys /\ db' \in [Keys -> Int]
        /\ open' \in [Keys -> Int] /\ drift' \in [Keys -> Int]
        /\ \A k \in Keys \ present' : counter'[k] = 0
        /\ UNCHANGED <<role, lookups>>
    BY <1>4, <1>0, <1>1 DEF DropZero, TypeOK, bounds, Delete
  <2>3. \A k \in Keys : db'[k] + open'[k] + counter'[k] + drift'[k] - InBoth(w, k)'
                        = db[k] + open[k] + counter[k] + drift[k] - InBoth(w, k)
    BY <1>4, <1>0, <1>1, <2>1 DEF DropZero, TypeOK, RowsHeld, InBoth, Pcs, Delete
  <2>4. /\ role = "slave" => \A k \in Keys : open'[k] = 0
        /\ \A k \in Keys : ~ (Held(w) /\ Key(w) = k) /\ ~ (Held(w)' /\ Key(w)' = k)
                             => open'[k] = open[k]
        /\ role = "master" /\ Held(w) /\ ~ (Held(w)' /\ Key(w)' = Key(w)) => open'[Key(w)] = 0
        /\ role = "master" /\ Held(w)' => open'[Key(w)'] = Seen(w)' /\ ~ RowLocked(w, Key(w)')
    BY <1>4, <1>0, <1>1, <2>1 DEF DropZero, TypeOK, RowsHeld, Pcs, Delete
  <2>5. QED BY <2>1, <2>2, <2>3, <2>4, WorkerKeeps
<1>5. ASSUME NEW w \in Workers, Upsert(w) PROVE StatsInv'
  <2>1. /\ run' \in [Workers -> RunType] /\ \A v \in Workers \ {w} : run'[v] = run[v]
        /\ run'[w].pc = "upserted" /\ Key(w)' = Key(w) /\ Seen(w)' = Seen(w)
    BY <1>5, <1>0, GotoMoves DEF Upsert, Pcs
  <2>2. /\ counter' \in [Keys -> Int] /\ present' \subseteq Keys /\ db' \in [Keys -> Int]
        /\ open' \in [Keys -> Int] /\ drift' \in [Keys -> Int]
        /\ \A k \in Keys \ present' : counter'[k] = 0
        /\ UNCHANGED <<role, lookups>>
    BY <1>5, <1>0, <1>1 DEF Upsert, TypeOK, bounds
  <2>3. \A k \in Keys : db'[k] + open'[k] + counter'[k] + drift'[k] - InBoth(w, k)'
                        = db[k] + open[k] + counter[k] + drift[k] - InBoth(w, k)
    <3>1. open[Key(w)] = 0
      BY <1>5, <1>0, <1>1 DEF Upsert, RowLocked, TypeOK
    <3>2. QED BY <1>5, <1>0, <1>1, <2>1, <3>1 DEF Upsert, TypeOK, InBoth
  <2>4. /\ role = "slave" => \A k \in Keys : open'[k] = 0
        /\ \A k \in Keys : ~ (Held(w) /\ Key(w) = k) /\ ~ (Held(w)' /\ Key(w)' = k)
                             => open'[k] = open[k]
        /\ role = "master" /\ Held(w) /\ ~ (Held(w)' /\ Key(w)' = Key(w)) => open'[Key(w)] = 0
        /\ role = "master" /\ Held(w)' => open'[Key(w)'] = Seen(w)' /\ ~ RowLocked(w, Key(w)')
    BY <1>5, <1>0, <1>1, <2>1 DEF Upsert, TypeOK, RowsHeld, Pcs
  <2>5. QED BY <2>1, <2>2, <2>3, <2>4, WorkerKeeps
<1>6. ASSUME NEW w \in Workers, DiscardUnknown(w) PROVE StatsInv'
  <2>1. /\ run' \in [Workers -> RunType] /\ \A v \in Workers \ {w} : run'[v] = run[v]
        /\ run'[w].pc = "next" /\ Key(w)' = Key(w) /\ Seen(w)' = Seen(w)
    BY <1>6, <1>0, GotoMoves DEF DiscardUnknown, Pcs
  <2>2. /\ counter' \in [Keys -> Int] /\ present' \subseteq Keys /\ db' \in [Keys -> Int]
        /\ open' \in [Keys -> Int] /\ drift' \in [Keys -> Int]
        /\ \A k \in Keys \ present' : counter'[k] = 0
        /\ UNCHANGED <<role, lookups>>
    BY <1>6, <1>0, <1>1 DEF DiscardUnknown, Delete, TypeOK, bounds
  <2>3. \A k \in Keys : db'[k] + open'[k] + counter'[k] + drift'[k] - InBoth(w, k)'
                        = db[k] + open[k] + counter[k] + drift[k] - InBoth(w, k)
    BY <1>6, <1>0, <1>1, <2>1 DEF DiscardUnknown, Delete, TypeOK, RowsHeld, InBoth, Pcs
  <2>4. /\ role = "slave" => \A k \in Keys : open'[k] = 0
        /\ \A k \in Keys : ~ (Held(w) /\ Key(w) = k) /\ ~ (Held(w)' /\ Key(w)' = k)
                             => open'[k] = open[k]
        /\ role = "master" /\ Held(w) /\ ~ (Held(w)' /\ Key(w)' = Key(w)) => open'[Key(w)] = 0
        /\ role = "master" /\ Held(w)' => open'[Key(w)'] = Seen(w)' /\ ~ RowLocked(w, Key(w)')
    BY <1>6, <1>0, <1>1, <2>1 DEF DiscardUnknown, Delete, TypeOK, RowsHeld, Pcs
  <2>5. QED BY <2>1, <2>2, <2>3, <2>4, WorkerKeeps
<1>7. ASSUME NEW w \in Workers, RemoteUpsert(w) PROVE StatsInv'
  <2>1. /\ run' \in [Workers -> RunType] /\ \A v \in Workers \ {w} : run'[v] = run[v]
        /\ run'[w].pc = "upserted" /\ Key(w)' = Key(w) /\ Seen(w)' = Seen(w)
    BY <1>7, <1>0, GotoMoves DEF RemoteUpsert, Pcs
  <2>2. /\ counter' \in [Keys -> Int] /\ present' \subseteq Keys /\ db' \in [Keys -> Int]
        /\ open' \in [Keys -> Int] /\ drift' \in [Keys -> Int]
        /\ \A k \in Keys \ present' : counter'[k] = 0
        /\ UNCHANGED <<role, lookups>>
    BY <1>7, <1>0, <1>1 DEF RemoteUpsert, TypeOK, bounds
  <2>3. \A k \in Keys : db'[k] + open'[k] + counter'[k] + drift'[k] - InBoth(w, k)'
                        = db[k] + open[k] + counter[k] + drift[k] - InBoth(w, k)
    BY <1>7, <1>0, <1>1, <2>1 DEF RemoteUpsert, TypeOK, RowsHeld, InBoth, Pcs
  <2>4. /\ role = "slave" => \A k \in Keys : open'[k] = 0
        /\ \A k \in Keys : ~ (Held(w) /\ Key(w) = k) /\ ~ (Held(w)' /\ Key(w)' = k)
                             => open'[k] = open[k]
        /\ role = "master" /\ Held(w) /\ ~ (Held(w)' /\ Key(w)' = Key(w)) => open'[Key(w)] = 0
        /\ role = "master" /\ Held(w)' => open'[Key(w)'] = Seen(w)' /\ ~ RowLocked(w, Key(w)')
    BY <1>7, <1>0, <1>1, <2>1 DEF RemoteUpsert, TypeOK, RowsHeld, Pcs
  <2>5. QED BY <2>1, <2>2, <2>3, <2>4, WorkerKeeps
<1>8. ASSUME NEW w \in Workers, RemoteRefuses(w) PROVE StatsInv'
  <2>1. /\ run' \in [Workers -> RunType] /\ \A v \in Workers \ {w} : run'[v] = run[v]
        /\ run'[w].pc = "off"
    BY <1>8, <1>0, OffMoves DEF RemoteRefuses
  <2>2. /\ counter' \in [Keys -> Int] /\ present' \subseteq Keys /\ db' \in [Keys -> Int]
        /\ open' \in [Keys -> Int] /\ drift' \in [Keys -> Int]
        /\ \A k \in Keys \ present' : counter'[k] = 0
        /\ UNCHANGED <<role, lookups>>
    BY <1>8, <1>0, <1>1 DEF RemoteRefuses, TypeOK, bounds
  <2>3. \A k \in Keys : db'[k] + open'[k] + counter'[k] + drift'[k] - InBoth(w, k)'
                        = db[k] + open[k] + counter[k] + drift[k] - InBoth(w, k)
    BY <1>8, <1>0, <1>1, <2>1 DEF RemoteRefuses, TypeOK, RowsHeld, InBoth, Pcs
  <2>4. /\ role = "slave" => \A k \in Keys : open'[k] = 0
        /\ \A k \in Keys : ~ (Held(w) /\ Key(w) = k) /\ ~ (Held(w)' /\ Key(w)' = k)
                             => open'[k] = open[k]
        /\ role = "master" /\ Held(w) /\ ~ (Held(w)' /\ Key(w)' = Key(w)) => open'[Key(w)] = 0
        /\ role = "master" /\ Held(w)' => open'[Key(w)'] = Seen(w)' /\ ~ RowLocked(w, Key(w)')
    BY <1>8, <1>0, <1>1, <2>1 DEF RemoteRefuses, TypeOK, RowsHeld, Pcs
  <2>5. QED BY <2>1, <2>2, <2>3, <2>4, WorkerKeeps
<1>9. ASSUME NEW w \in Workers, Decrement(w) PROVE StatsInv'
  <2>1. /\ run' \in [Workers -> RunType] /\ \A v \in Workers \ {w} : run'[v] = run[v]
        /\ run'[w].pc = "decremented" /\ Key(w)' = Key(w) /\ Seen(w)' = Seen(w)
    BY <1>9, <1>0, GotoMoves DEF Decrement, Pcs
  <2>2. /\ counter' \in [Keys -> Int] /\ present' \subseteq Keys /\ db' \in [Keys -> Int]
        /\ open' \in [Keys -> Int] /\ drift' \in [Keys -> Int]
        /\ \A k \in Keys \ present' : counter'[k] = 0
        /\ UNCHANGED <<role, lookups>>
    BY <1>9, <1>0, <1>1 DEF Decrement, TypeOK, bounds
  <2>3. \A k \in Keys : db'[k] + open'[k] + counter'[k] + drift'[k] - InBoth(w, k)'
                        = db[k] + open[k] + counter[k] + drift[k] - InBoth(w, k)
    BY <1>9, <1>0, <1>1, <2>1 DEF Decrement, TypeOK, RowsHeld, InBoth, Pcs
  <2>4. /\ role = "slave" => \A k \in Keys : open'[k] = 0
        /\ \A k \in Keys : ~ (Held(w) /\ Key(w) = k) /\ ~ (Held(w)' /\ Key(w)' = k)
                             => open'[k] = open[k]
        /\ role = "master" /\ Held(w) /\ ~ (Held(w)' /\ Key(w)' = Key(w)) => open'[Key(w)] = 0
        /\ role = "master" /\ Held(w)' => open'[Key(w)'] = Seen(w)' /\ ~ RowLocked(w, Key(w)')
    BY <1>9, <1>0, <1>1, <2>1 DEF Decrement, TypeOK, RowsHeld, Pcs
  <2>5. QED BY <2>1, <2>2, <2>3, <2>4, WorkerKeeps
<1>10. ASSUME NEW w \in Workers, CommitKey(w) PROVE StatsInv'
  <2>1. /\ run' \in [Workers -> RunType] /\ \A v \in Workers \ {w} : run'[v] = run[v]
        /\ run'[w].pc = "next" /\ Key(w)' = Key(w) /\ Seen(w)' = Seen(w)
    BY <1>10, <1>0, GotoMoves DEF CommitKey, Pcs
  <2>2. /\ counter' \in [Keys -> Int] /\ present' \subseteq Keys /\ db' \in [Keys -> Int]
        /\ open' \in [Keys -> Int] /\ drift' \in [Keys -> Int]
        /\ \A k \in Keys \ present' : counter'[k] = 0
        /\ UNCHANGED <<role, lookups>>
    BY <1>10, <1>0, <1>1 DEF CommitKey, TypeOK, bounds
  <2>3. \A k \in Keys : db'[k] + open'[k] + counter'[k] + drift'[k] - InBoth(w, k)'
                        = db[k] + open[k] + counter[k] + drift[k] - InBoth(w, k)
    BY <1>10, <1>0, <1>1, <2>1 DEF CommitKey, TypeOK, RowsHeld, InBoth, Pcs
  <2>4. /\ role = "slave" => \A k \in Keys : open'[k] = 0
        /\ \A k \in Keys : ~ (Held(w) /\ Key(w) = k) /\ ~ (Held(w)' /\ Key(w)' = k)
                             => open'[k] = open[k]
        /\ role = "master" /\ Held(w) /\ ~ (Held(w)' /\ Key(w)' = Key(w)) => open'[Key(w)] = 0
        /\ role = "master" /\ Held(w)' => open'[Key(w)'] = Seen(w)' /\ ~ RowLocked(w, Key(w)')
    BY <1>10, <1>0, <1>1, <2>1 DEF CommitKey, TypeOK, RowsHeld, Pcs
  <2>5. QED BY <2>1, <2>2, <2>3, <2>4, WorkerKeeps
<1>11. ASSUME NEW w \in Workers, Finish(w) PROVE StatsInv'
  <2>1. /\ run' \in [Workers -> RunType] /\ \A v \in Workers \ {w} : run'[v] = run[v]
        /\ run'[w].pc = "off"
    BY <1>11, <1>0, OffMoves DEF Finish
  <2>2. /\ counter' \in [Keys -> Int] /\ present' \subseteq Keys /\ db' \in [Keys -> Int]
        /\ open' \in [Keys -> Int] /\ drift' \in [Keys -> Int]
        /\ \A k \in Keys \ present' : counter'[k] = 0
        /\ UNCHANGED <<role, lookups>>
    BY <1>11, <1>0, <1>1 DEF Finish, TypeOK, bounds
  <2>3. \A k \in Keys : db'[k] + open'[k] + counter'[k] + drift'[k] - InBoth(w, k)'
                        = db[k] + open[k] + counter[k] + drift[k] - InBoth(w, k)
    BY <1>11, <1>0, <1>1, <2>1 DEF Finish, TypeOK, RowsHeld, InBoth, Pcs
  <2>4. /\ role = "slave" => \A k \in Keys : open'[k] = 0
        /\ \A k \in Keys : ~ (Held(w) /\ Key(w) = k) /\ ~ (Held(w)' /\ Key(w)' = k)
                             => open'[k] = open[k]
        /\ role = "master" /\ Held(w) /\ ~ (Held(w)' /\ Key(w)' = Key(w)) => open'[Key(w)] = 0
        /\ role = "master" /\ Held(w)' => open'[Key(w)'] = Seen(w)' /\ ~ RowLocked(w, Key(w)')
    BY <1>11, <1>0, <1>1, <2>1 DEF Finish, TypeOK, RowsHeld, Pcs
  <2>5. QED BY <2>1, <2>2, <2>3, <2>4, WorkerKeeps
<1>12. ASSUME NEW w \in Workers, RemoteFails(w) PROVE StatsInv'
  <2>1. /\ run' \in [Workers -> RunType] /\ \A v \in Workers \ {w} : run'[v] = run[v]
        /\ run'[w].pc = "off"
    BY <1>12, <1>0, OffMoves DEF RemoteFails
  <2>2. /\ counter' \in [Keys -> Int] /\ present' \subseteq Keys /\ db' \in [Keys -> Int]
        /\ open' \in [Keys -> Int] /\ drift' \in [Keys -> Int]
        /\ \A k \in Keys \ present' : counter'[k] = 0
        /\ UNCHANGED <<role, lookups>>
    BY <1>12, <1>0, <1>1 DEF RemoteFails, TypeOK, bounds
  <2>3. \A k \in Keys : db'[k] + open'[k] + counter'[k] + drift'[k] - InBoth(w, k)'
                        = db[k] + open[k] + counter[k] + drift[k] - InBoth(w, k)
    BY <1>12, <1>0, <1>1, <2>1 DEF RemoteFails, TypeOK, RowsHeld, InBoth, Pcs
  <2>4. /\ role = "slave" => \A k \in Keys : open'[k] = 0
        /\ \A k \in Keys : ~ (Held(w) /\ Key(w) = k) /\ ~ (Held(w)' /\ Key(w)' = k)
                             => open'[k] = open[k]
        /\ role = "master" /\ Held(w) /\ ~ (Held(w)' /\ Key(w)' = Key(w)) => open'[Key(w)] = 0
        /\ role = "master" /\ Held(w)' => open'[Key(w)'] = Seen(w)' /\ ~ RowLocked(w, Key(w)')
    BY <1>12, <1>0, <1>1, <2>1 DEF RemoteFails, TypeOK, RowsHeld, Pcs
  <2>5. QED BY <2>1, <2>2, <2>3, <2>4, WorkerKeeps
<1>13. ASSUME NEW w \in Workers, Crash(w) PROVE StatsInv'
  <2>1. /\ run' \in [Workers -> RunType] /\ \A v \in Workers \ {w} : run'[v] = run[v]
        /\ run'[w].pc = "off"
    BY <1>13, <1>0, OffMoves DEF Crash
  <2>2. /\ counter' \in [Keys -> Int] /\ present' \subseteq Keys /\ db' \in [Keys -> Int]
        /\ open' \in [Keys -> Int] /\ drift' \in [Keys -> Int]
        /\ \A k \in Keys \ present' : counter'[k] = 0
        /\ UNCHANGED <<role, lookups>>
    BY <1>13, <1>0, <1>1 DEF Crash, TypeOK, bounds
  <2>3. \A k \in Keys : db'[k] + open'[k] + counter'[k] + drift'[k] - InBoth(w, k)'
                        = db[k] + open[k] + counter[k] + drift[k] - InBoth(w, k)
    BY <1>13, <1>0, <1>1, <2>1 DEF Crash, TypeOK, RowsHeld, InBoth, Pcs
  <2>4. /\ role = "slave" => \A k \in Keys : open'[k] = 0
        /\ \A k \in Keys : ~ (Held(w) /\ Key(w) = k) /\ ~ (Held(w)' /\ Key(w)' = k)
                             => open'[k] = open[k]
        /\ role = "master" /\ Held(w) /\ ~ (Held(w)' /\ Key(w)' = Key(w)) => open'[Key(w)] = 0
        /\ role = "master" /\ Held(w)' => open'[Key(w)'] = Seen(w)' /\ ~ RowLocked(w, Key(w)')
    BY <1>13, <1>0, <1>1, <2>1 DEF Crash, TypeOK, RowsHeld, Pcs
  <2>5. QED BY <2>1, <2>2, <2>3, <2>4, WorkerKeeps
<1>14. ASSUME NEW k \in Keys, Count(k) PROVE StatsInv'
  <2>1. UNCHANGED <<role, db, open, run, drift>>
    BY <1>14 DEF Count
  <2>2. TypeOK'
    BY <1>14, <1>0 DEF Count, TypeOK, bounds, Key
  <2>3. RowsHeld'
    BY <1>0, <2>1 DEF RowsHeld, RowLocked, Key, Seen
  <2>4. ASSUME NEW j \in Keys PROVE Twice(j)' = Twice(j) /\ Twice(j) \in Int
    <3>1. \A v \in Workers : InBoth(v, j)' = InBoth(v, j) /\ InBoth(v, j) \in Int
      BY <2>1, <1>1 DEF InBoth, Key, Seen
    <3>2. Twice(j)' = Twice(j)
      BY <2>1 DEF Twice, InBoth, Key, Seen
    <3>3. IsFiniteSet(Workers)
      BY StatsAssumption
    <3> DEFINE f == [v \in Workers |-> InBoth(v, j)]
    <3>4. Twice(j) = SumFunctionOnSet(f, Workers) /\ \A v \in Workers : f[v] \in Int
      BY <3>1 DEF Twice
    <3> HIDE DEF f
    <3>5. QED BY <3>2, <3>3, <3>4, SumInt
  <2>5. CountedOnce'
    BY <1>14, <1>0, <2>4 DEF CountedOnce, Count, TypeOK
  <2>6. QED BY <2>2, <2>3, <2>5 DEF StatsInv
<1>15. CASE UNCHANGED vars
  <2>1. QED BY <1>15, <1>0
         DEF StatsInv, TypeOK, RowsHeld, CountedOnce, Twice, InBoth, RowLocked, Key, Seen,
             vars, bounds
<1>16. QED
  BY <1>2, <1>3, <1>4, <1>5, <1>6, <1>7, <1>8, <1>9, <1>10, <1>11, <1>12, <1>13, <1>14, <1>15
  DEF Next, WorkerStep

\* At the start nothing was counted, and every sum is over zeros.
LEMMA InitCounts == Init => StatsInv
<1> SUFFICES ASSUME Init PROVE StatsInv
  OBVIOUS
<1>1. TypeOK
  BY InitEstablishes
<1>2. \A w \in Workers : run[w].pc = "off"
  BY DEF Init, Off
<1>3. RowsHeld
  BY <1>2 DEF RowsHeld, Init, Zero
<1>4. ASSUME NEW k \in Keys PROVE Twice(k) = 0
  <2> DEFINE f == [w \in Workers |-> InBoth(w, k)]
  <2>1. \A w \in Workers : f[w] = 0
    BY <1>2 DEF InBoth
  <2>2. Twice(k) = SumFunctionOnSet(f, Workers) /\ IsFiniteSet(Workers)
    BY StatsAssumption DEF Twice
  <2> HIDE DEF f
  <2>3. SumFunctionOnSet(f, Workers) = 0
    BY <2>1, <2>2, SumZero
  <2>4. QED BY <2>2, <2>3
<1>5. CountedOnce
  BY <1>4 DEF CountedOnce, Init, Zero
<1>6. QED BY <1>1, <1>3, <1>5 DEF StatsInv

-----------------------------------------------------------------------------
(* Theorems *)

\* Counters, rows and runs stay well formed: only the worker that holds a row
\* has an uncommitted count in it.
THEOREM StatsTyped == Spec => []TypeOK
<1>1. StatsInv => TypeOK
  BY DEF StatsInv
<1>2. QED BY InitCounts, StatsStep, <1>1, PTL DEF Spec

\* Each lookup is counted once, in Redis, in PostgreSQL or in the transaction
\* between them, whatever runs overlap, crash or lose an answer.
THEOREM LookupsCountedOnce == Spec => []CountedOnce
<1>1. StatsInv => CountedOnce
  BY DEF StatsInv
<1>2. QED BY InitCounts, StatsStep, <1>1, PTL DEF Spec
=============================================================================
