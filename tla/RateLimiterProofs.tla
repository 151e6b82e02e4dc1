--------------------------- MODULE RateLimiterProofs ---------------------------
(***************************************************************************)
(* Proofs about RateLimiter, for any number of requests, buckets, limits,  *)
(* slots and deaths: the counters in Redis are what CountersExplained      *)
(* says, and LimitKept.  A step of a request changes one element of caller *)
(* and one counter (Replaced, PlusAt); the end of a slot shifts all.       *)
(*                                                                         *)
(* LimitKept needs more than the counters: a call that has added its one   *)
(* keeps its place (RoomKept) as long as what it has read, with what was   *)
(* let through in the older slots, is within the limit.                    *)
(***************************************************************************)
EXTENDS RateLimiter, Sums, SequenceTheorems

Tables == [DOMAIN Limit -> [Ages -> Int]]

(* Every request passes some bucket: one that names no application passes that
   of its address. *)
LEMMA RouteNotEmpty ==
  ASSUME NEW r \in Incoming
  PROVE  RouteOf(r) \in Seq(DOMAIN Limit) /\ RouteOf(r) # <<>>
  BY LimiterAssumption DEF RouteOf

\* A request that has ended is sound.
LEMMA NoCallerSound == SoundCaller(NoCaller)
  BY LimiterAssumption DEF NoCaller, SoundCaller, PcType

\* A request under way goes on to another command, with another sum.
Onward(p, next, n) == [p EXCEPT !.pc = next, !.sum = n]

(* That is still a request, of the same route and slot. *)
LEMMA MovesOn ==
  ASSUME NEW p, SoundCaller(p), p.pc # "idle", NEW next \in PcType, NEW n \in Int
  PROVE  /\ SoundCaller(Onward(p, next, n)) /\ Onward(p, next, n).pc = next
         /\ Onward(p, next, n).route = p.route /\ Onward(p, next, n).slot = p.slot
         /\ Onward(p, next, n).sum = n
  BY DEF SoundCaller, Onward

(* The bucket of a request under way is one that has a limit, and its slot is
   one of those kept. *)
LEMMA BucketKnown ==
  ASSUME LimiterInv, NEW c \in Callers, caller[c].pc # "idle"
  PROVE  Bucket(c) \in DOMAIN Limit /\ caller[c].slot \in Ages
  BY LimiterAssumption DEF LimiterInv, CallersSound, SoundCaller, Bucket, Ages

\* Finitely many requests, so finitely many in flight.
LEMMA InFlightFinite ==
  ASSUME NEW b, NEW a
  PROVE  IsFiniteSet(InFlight(b, a)) /\ Cardinality(InFlight(b, a)) \in Nat
  BY LimiterAssumption, FS_Subset, FS_CardinalityType DEF InFlight

(* Adding to one counter changes that counter alone. *)
LEMMA PlusAt ==
  ASSUME NEW table \in Tables, NEW b \in DOMAIN Limit, NEW a \in Ages, NEW n \in Int
  PROVE  /\ Plus(table, b, a, n) \in Tables
         /\ \A d \in DOMAIN Limit, e \in Ages :
              Plus(table, b, a, n)[d][e] = IF d = b /\ e = a THEN table[d][e] + n ELSE table[d][e]
  BY DEF Plus, Tables

\* Counting one call, or one late call.
LEMMA PlusOne ==
  ASSUME NEW table \in Tables, NEW b \in DOMAIN Limit, NEW a \in Ages
  PROVE  \A d \in DOMAIN Limit, e \in Ages :
           Plus(table, b, a, 1)[d][e] = IF d = b /\ e = a THEN table[d][e] + 1 ELSE table[d][e]
  BY DEF Plus, Tables

\* Does q count as in flight in bucket b and slot a?
Flies(q, b, a) == q.pc \in {"get", "decide"} /\ Head(q.route) = b /\ q.slot = a

(* A set that differs from a finite one in the element c only. *)
LEMMA OneElement ==
  ASSUME NEW S, NEW T, NEW c, IsFiniteSet(S), S \ {c} = T \ {c}
  PROVE  Cardinality(T) = Cardinality(S) + (IF c \in T THEN 1 ELSE 0) - (IF c \in S THEN 1 ELSE 0)
<1>1. IsFiniteSet(S \ {c}) /\ Cardinality(S \ {c}) \in Nat /\ Cardinality(S) \in Nat
  BY FS_Subset, FS_CardinalityType
<1>2. IF c \in S THEN Cardinality(S) = Cardinality(S \ {c}) + 1
      ELSE Cardinality(S) = Cardinality(S \ {c})
  <2>1. CASE c \in S
    BY <2>1, <1>1, FS_RemoveElement
  <2>2. CASE c \notin S
    <3>1. S \ {c} = S
      BY <2>2
    <3> QED BY <3>1, <2>2
  <2> QED BY <2>1, <2>2
<1>3. IF c \in T THEN Cardinality(T) = Cardinality(T \ {c}) + 1
      ELSE Cardinality(T) = Cardinality(T \ {c})
  <2>1. CASE c \in T
    <3>1. T = (T \ {c}) \union {c}
      BY <2>1
    <3>2. IsFiniteSet(T \ {c}) /\ c \notin T \ {c}
      BY <1>1
    <3> QED BY <2>1, <3>1, <3>2, FS_AddElement
  <2>2. CASE c \notin T
    <3>1. T \ {c} = T
      BY <2>2
    <3> QED BY <3>1, <2>2
  <2> QED BY <2>1, <2>2
<1> QED
  BY <1>1, <1>2, <1>3

(* One request changes: the others are as they were, and the number in flight
   changes by that request. *)
LEMMA Replaced ==
  ASSUME LimiterInv, NEW c \in Callers, NEW q, SoundCaller(q),
         caller' = [caller EXCEPT ![c] = q]
  PROVE  /\ CallersSound'
         /\ \A b \in DOMAIN Limit, a \in Ages :
              Cardinality(InFlight(b, a)') = Cardinality(InFlight(b, a))
                + (IF Flies(q, b, a) THEN 1 ELSE 0) - (IF Flies(caller[c], b, a) THEN 1 ELSE 0)
<1>1. caller' = [d \in Callers |-> IF d = c THEN q ELSE caller[d]]
  BY DEF LimiterInv, CallersSound
<1>2. caller'[c] = q /\ \A d \in Callers \ {c} : caller'[d] = caller[d]
  BY <1>1
<1>3. CallersSound'
  <2>1. \A d \in Callers : SoundCaller(caller'[d])
    BY <1>2 DEF LimiterInv, CallersSound
  <2>2. caller' = [d \in Callers |-> caller'[d]]
    BY <1>1
  <2> QED BY <2>1, <2>2 DEF CallersSound, SoundCaller
<1>4. ASSUME NEW b \in DOMAIN Limit, NEW a \in Ages
      PROVE  Cardinality(InFlight(b, a)') = Cardinality(InFlight(b, a))
               + (IF Flies(q, b, a) THEN 1 ELSE 0) - (IF Flies(caller[c], b, a) THEN 1 ELSE 0)
  <2>1. InFlight(b, a) \ {c} = InFlight(b, a)' \ {c}
    BY <1>2 DEF InFlight, Bucket
  <2>2. (c \in InFlight(b, a) <=> Flies(caller[c], b, a)) /\ (c \in InFlight(b, a)' <=> Flies(q, b, a))
    BY <1>2 DEF InFlight, Bucket, Flies
  <2> QED BY <2>1, <2>2, InFlightFinite, OneElement
<1> QED
  BY <1>3, <1>4

\* At first all counters are 0 and no request is under way.
LEMMA InitEstablishes == LimiterInit => LimiterInv
<1> SUFFICES ASSUME LimiterInit PROVE LimiterInv
  OBVIOUS
<1>1. TablesSound
  BY DEF LimiterInit, Zero, TablesSound
<1>2. CallersSound
  BY NoCallerSound DEF LimiterInit, CallersSound
<1>3. CountersExplained
  <2> SUFFICES ASSUME NEW b \in DOMAIN Limit, NEW a \in Ages
               PROVE  counter[b][a] = passed[b][a] + Cardinality(InFlight(b, a)) + lost[b][a]
    BY DEF CountersExplained
  <2>1. InFlight(b, a) = {}
    BY DEF LimiterInit, NoCaller, InFlight
  <2> QED
    BY <2>1, FS_EmptySet DEF LimiterInit, Zero
<1> QED
  BY <1>1, <1>2, <1>3 DEF LimiterInv

\* What is in the counter of bucket b and slot a, but for those let through and
\* those that died.
Rest(b, a) == counter[b][a] - passed[b][a] - lost[b][a]

(* A step of one request keeps the invariant if it moves its counter as it
   enters or leaves the flight. *)
LEMMA Settles ==
  ASSUME LimiterInv, NEW c \in Callers, NEW q, SoundCaller(q),
         caller' = [caller EXCEPT ![c] = q], TablesSound',
         \A b \in DOMAIN Limit, a \in Ages :
           Rest(b, a)' = Rest(b, a) + (IF Flies(q, b, a) THEN 1 ELSE 0)
                                    - (IF Flies(caller[c], b, a) THEN 1 ELSE 0)
  PROVE  LimiterInv'
<1>1. CallersSound'
  BY Replaced
<1>2. CountersExplained'
  <2> SUFFICES ASSUME NEW b \in DOMAIN Limit, NEW a \in Ages
               PROVE  counter'[b][a] = passed'[b][a] + Cardinality(InFlight(b, a)') + lost'[b][a]
    BY DEF CountersExplained
  <2>1. /\ counter[b][a] \in Int /\ passed[b][a] \in Int /\ lost[b][a] \in Int
        /\ counter'[b][a] \in Int /\ passed'[b][a] \in Int /\ lost'[b][a] \in Int
    BY DEF LimiterInv, TablesSound
  <2>2. Cardinality(InFlight(b, a)) \in Nat
    BY InFlightFinite
  <2>3. counter[b][a] = passed[b][a] + Cardinality(InFlight(b, a)) + lost[b][a]
    BY DEF LimiterInv, CountersExplained
  <2>4. Cardinality(InFlight(b, a)') = Cardinality(InFlight(b, a))
          + (IF Flies(q, b, a) THEN 1 ELSE 0) - (IF Flies(caller[c], b, a) THEN 1 ELSE 0)
    BY Replaced
  <2>5. counter'[b][a] - passed'[b][a] - lost'[b][a] = counter[b][a] - passed[b][a] - lost[b][a]
          + (IF Flies(q, b, a) THEN 1 ELSE 0) - (IF Flies(caller[c], b, a) THEN 1 ELSE 0)
    BY DEF Rest
  <2> QED
    BY <2>1, <2>2, <2>3, <2>4, <2>5
<1> QED
  BY <1>1, <1>2 DEF LimiterInv

\* A new request has counted nothing yet.
LEMMA ArriveKeeps ==
  ASSUME LimiterInv, NEW c \in Callers, NEW r \in Incoming, Arrive(c, r)
  PROVE  LimiterInv'
<1> DEFINE q == IF IsClusterRequest(r) THEN NoCaller
                ELSE [NoCaller EXCEPT !.pc = "incr", !.route = RouteOf(r)]
<1>1. SoundCaller(q)
  BY NoCallerSound, RouteNotEmpty, LimiterAssumption DEF SoundCaller, NoCaller, PcType
<1>2. caller' = [caller EXCEPT ![c] = q] /\ TablesSound'
  BY DEF Arrive, LimiterInv, TablesSound
<1>3. q.pc \in {"idle", "incr"} /\ caller[c].pc = "idle"
  BY DEF Arrive, NoCaller
<1>4. \A b \in DOMAIN Limit, a \in Ages : Rest(b, a)' = Rest(b, a) /\ Rest(b, a) \in Int
  BY DEF Arrive, Rest, LimiterInv, TablesSound
<1>5. \A b \in DOMAIN Limit, a \in Ages :
        Rest(b, a)' = Rest(b, a) + (IF Flies(q, b, a) THEN 1 ELSE 0)
                                 - (IF Flies(caller[c], b, a) THEN 1 ELSE 0)
  BY <1>3, <1>4 DEF Flies
<1> HIDE DEF q
<1> QED
  BY <1>1, <1>2, <1>5, Settles

\* INCR adds one to the counter, and its request to those in flight.
LEMMA IncrKeeps ==
  ASSUME LimiterInv, NEW c \in Callers, Incr(c)
  PROVE  LimiterInv'
<1> DEFINE s == caller[c].slot
           n == counter'[Bucket(c)][s]
           q == [caller[c] EXCEPT !.pc = "get", !.sum = n]
<1>0. SoundCaller(caller[c]) /\ caller[c].pc = "incr" /\ "get" \in PcType
  BY DEF Incr, LimiterInv, CallersSound, PcType
<1>2. caller' = [caller EXCEPT ![c] = q]
  BY DEF Incr, LimiterInv, CallersSound
<1>3. Bucket(c) \in DOMAIN Limit /\ s \in Ages
  BY <1>0, BucketKnown
<1>4. counter \in Tables /\ passed \in Tables /\ lost \in Tables
  BY DEF LimiterInv, TablesSound, Tables
<1>5. /\ counter' \in Tables
      /\ \A b \in DOMAIN Limit, a \in Ages :
           counter'[b][a] = IF b = Bucket(c) /\ a = s THEN counter[b][a] + 1 ELSE counter[b][a]
  BY <1>3, <1>4, PlusAt DEF Incr
<1>1. SoundCaller(q) /\ caller[c].pc = "incr" /\ q.pc = "get" /\ q.route = caller[c].route /\ q.slot = s
  <2>1. n \in Int
    BY <1>3, <1>5 DEF Tables
  <2>2. q = [caller[c] EXCEPT !.pc = "get", !.sum = n] /\ caller[c].pc # "idle"
    BY <1>0
  <2> HIDE DEF n, q
  <2>3. q = Onward(caller[c], "get", n)
    BY <2>2 DEF Onward
  <2> QED BY <1>0, <2>1, <2>2, <2>3, MovesOn
<1>6. TablesSound'
  BY <1>5 DEF Incr, LimiterInv, TablesSound, Tables
<1>7. \A b \in DOMAIN Limit, a \in Ages :
        Rest(b, a)' = Rest(b, a) + (IF b = Bucket(c) /\ a = s THEN 1 ELSE 0)
  BY <1>4, <1>5 DEF Incr, Rest, Tables
<1>8. \A b \in DOMAIN Limit, a \in Ages :
        (Flies(q, b, a) <=> b = Bucket(c) /\ a = s) /\ ~ Flies(caller[c], b, a)
  BY <1>1 DEF Flies, Bucket
<1>9. \A b \in DOMAIN Limit, a \in Ages : Rest(b, a) \in Int
  BY <1>4 DEF Rest, Tables
<1>10. \A b \in DOMAIN Limit, a \in Ages :
         Rest(b, a)' = Rest(b, a) + (IF Flies(q, b, a) THEN 1 ELSE 0)
                                  - (IF Flies(caller[c], b, a) THEN 1 ELSE 0)
  BY <1>7, <1>8, <1>9
<1> HIDE DEF q
<1> QED
  BY <1>1, <1>2, <1>6, <1>10, Settles

\* What the call of c reads in the older slots.
Read(c) == SumFunctionOnSet(counter[Bucket(c)],
                            (caller[c].slot + 1 .. caller[c].slot + Steps - 1) \intersect Ages)

\* The ages that are kept, and any window of them, are finite.
LEMMA AgesFinite == IsFiniteSet(Ages) /\ \A S : IsFiniteSet(S \intersect Ages)
<1>1. IsFiniteSet(Ages)
  <2>1. 0 \in Int /\ Steps + MaxLag - 1 \in Int
    BY LimiterAssumption
  <2> QED BY <2>1, FS_Interval DEF Ages
<1>2. \A S : S \intersect Ages \subseteq Ages
  OBVIOUS
<1> QED BY <1>1, <1>2, FS_Subset

\* MGET reads numbers.
LEMMA ReadInt ==
  ASSUME LimiterInv, NEW c \in Callers, caller[c].pc # "idle"
  PROVE  Read(c) \in Int
<1>1. PICK f : f = counter[Bucket(c)]
  OBVIOUS
<1>2. \A a \in Ages : f[a] \in Int
  BY <1>1, BucketKnown DEF LimiterInv, TablesSound
<1>3. PICK S : S = (caller[c].slot + 1 .. caller[c].slot + Steps - 1) \intersect Ages
  OBVIOUS
<1>4. IsFiniteSet(S) /\ \A a \in S : f[a] \in Int
  BY <1>2, <1>3, AgesFinite
<1> QED BY <1>1, <1>3, <1>4, SumInt DEF Read

\* Reading the other slots changes no counter.
LEMMA GetKeeps ==
  ASSUME LimiterInv, NEW c \in Callers, Get(c)
  PROVE  LimiterInv'
<1> DEFINE n == caller[c].sum + Read(c)
           q == [caller[c] EXCEPT !.pc = "decide", !.sum = n]
<1>1. SoundCaller(caller[c]) /\ caller[c].pc = "get" /\ "decide" \in PcType
  BY DEF Get, LimiterInv, CallersSound, PcType
<1>2. caller' = [caller EXCEPT ![c] = q]
  BY DEF Get, LimiterInv, CallersSound, Read
<1>3. TablesSound' /\ \A b \in DOMAIN Limit, a \in Ages : Rest(b, a)' = Rest(b, a) /\ Rest(b, a) \in Int
  BY DEF Get, LimiterInv, TablesSound, Rest
<1>7. n \in Int
  BY <1>1, ReadInt DEF SoundCaller
<1> HIDE DEF n
<1>4. SoundCaller(q) /\ q.pc = "decide" /\ q.route = caller[c].route /\ q.slot = caller[c].slot
  <2>1. q = [caller[c] EXCEPT !.pc = "decide", !.sum = n] /\ caller[c].pc # "idle"
    BY <1>1
  <2> HIDE DEF q
  <2>2. q = Onward(caller[c], "decide", n)
    BY <2>1 DEF Onward
  <2> QED BY <1>1, <1>7, <2>1, <2>2, MovesOn
<1>5. \A b \in DOMAIN Limit, a \in Ages : Flies(q, b, a) <=> Flies(caller[c], b, a)
  BY <1>1, <1>4 DEF Flies
<1>6. \A b \in DOMAIN Limit, a \in Ages :
        Rest(b, a)' = Rest(b, a) + (IF Flies(q, b, a) THEN 1 ELSE 0)
                                 - (IF Flies(caller[c], b, a) THEN 1 ELSE 0)
  BY <1>3, <1>5
<1> HIDE DEF q
<1> QED
  BY <1>2, <1>3, <1>4, <1>6, Settles

(* A request that has decided, or died, leaves the flight: one of the tables
   takes its one over. *)
LEMMA Leaves ==
  ASSUME LimiterInv, NEW c \in Callers, NEW q, SoundCaller(q), q.pc \in {"idle", "incr"},
         caller' = [caller EXCEPT ![c] = q], caller[c].pc \in {"get", "decide"}, TablesSound',
         \A b \in DOMAIN Limit, a \in Ages :
           Rest(b, a)' = Rest(b, a) - (IF b = Bucket(c) /\ a = caller[c].slot THEN 1 ELSE 0)
  PROVE  LimiterInv'
<1>1. \A b \in DOMAIN Limit, a \in Ages :
        ~ Flies(q, b, a) /\ (Flies(caller[c], b, a) <=> b = Bucket(c) /\ a = caller[c].slot)
  BY DEF Flies, Bucket
<1>2. \A b \in DOMAIN Limit, a \in Ages : Rest(b, a) \in Int
  BY DEF LimiterInv, TablesSound, Rest
<1>3. \A b \in DOMAIN Limit, a \in Ages :
        Rest(b, a)' = Rest(b, a) + (IF Flies(q, b, a) THEN 1 ELSE 0)
                                 - (IF Flies(caller[c], b, a) THEN 1 ELSE 0)
  BY <1>1, <1>2
<1> QED
  BY <1>3, Settles

\* A refused request takes its one back and is not in flight any more.
LEMMA RefuseKeeps ==
  ASSUME LimiterInv, NEW c \in Callers, Refuse(c)
  PROVE  LimiterInv'
<1>1. caller[c].pc = "decide" /\ caller' = [caller EXCEPT ![c] = NoCaller] /\ NoCaller.pc = "idle"
  BY DEF Refuse, NoCaller
<1>2. Bucket(c) \in DOMAIN Limit /\ caller[c].slot \in Ages
  BY <1>1, BucketKnown
<1>3. counter \in Tables /\ passed \in Tables /\ lost \in Tables
  BY DEF LimiterInv, TablesSound, Tables
<1>4. /\ counter' \in Tables
      /\ \A b \in DOMAIN Limit, a \in Ages :
           counter'[b][a] = IF b = Bucket(c) /\ a = caller[c].slot THEN counter[b][a] + (-1)
                            ELSE counter[b][a]
  BY <1>2, <1>3, PlusAt, -1 \in Int DEF Refuse
<1>5. TablesSound'
  BY <1>4 DEF Refuse, LimiterInv, TablesSound, Tables
<1>6. \A b \in DOMAIN Limit, a \in Ages :
        Rest(b, a)' = Rest(b, a) - (IF b = Bucket(c) /\ a = caller[c].slot THEN 1 ELSE 0)
  BY <1>3, <1>4 DEF Refuse, Rest, Tables
<1> QED
  BY <1>1, <1>5, <1>6, NoCallerSound, Leaves

\* A request that dies leaves its one behind, as a lost one.
LEMMA DieKeeps ==
  ASSUME LimiterInv, NEW c \in Callers, Die(c)
  PROVE  LimiterInv'
<1>1. /\ caller[c].pc \in {"get", "decide"} /\ caller' = [caller EXCEPT ![c] = NoCaller]
      /\ NoCaller.pc = "idle" /\ lost' = Plus(lost, Bucket(c), caller[c].slot, 1)
      /\ UNCHANGED <<counter, passed, late>>
  BY DEF Die, NoCaller
<1>2. Bucket(c) \in DOMAIN Limit /\ caller[c].slot \in Ages
  BY <1>1, BucketKnown
<1>3. counter \in Tables /\ passed \in Tables /\ lost \in Tables
  BY DEF LimiterInv, TablesSound, Tables
<1>4. /\ lost' \in Tables
      /\ \A b \in DOMAIN Limit, a \in Ages :
           lost'[b][a] = IF b = Bucket(c) /\ a = caller[c].slot THEN lost[b][a] + 1 ELSE lost[b][a]
  BY <1>1, <1>2, <1>3, PlusAt
<1>5. TablesSound'
  BY <1>1, <1>4 DEF LimiterInv, TablesSound, Tables
<1>6. \A b \in DOMAIN Limit, a \in Ages :
        Rest(b, a)' = Rest(b, a) - (IF b = Bucket(c) /\ a = caller[c].slot THEN 1 ELSE 0)
  BY <1>1, <1>3, <1>4 DEF Rest, Tables
<1> QED
  BY <1>1, <1>5, <1>6, NoCallerSound, Leaves

\* A request that passes is let through, and goes on to its next bucket.
LEMMA PassKeeps ==
  ASSUME LimiterInv, NEW c \in Callers, Pass(c)
  PROVE  LimiterInv'
<1> DEFINE s == caller[c].slot
           q == IF Len(caller[c].route) = 1 THEN NoCaller
                ELSE [NoCaller EXCEPT !.pc = "incr", !.route = Tail(caller[c].route)]
<1>1. /\ caller[c].pc = "decide" /\ caller' = [caller EXCEPT ![c] = q]
      /\ passed' = Plus(passed, Bucket(c), s, 1)
      /\ late' = IF s > 0 THEN Plus(late, Bucket(c), s, 1) ELSE late
      /\ UNCHANGED <<counter, lost>>
  BY DEF Pass
<1>2. caller[c].route \in Seq(DOMAIN Limit) /\ caller[c].route # <<>>
  BY <1>1 DEF LimiterInv, CallersSound, SoundCaller
<1>3. SoundCaller(q) /\ q.pc \in {"idle", "incr"}
  <2>1. CASE Len(caller[c].route) = 1
    BY <2>1, NoCallerSound DEF NoCaller
  <2>2. CASE Len(caller[c].route) # 1
    <3>1. Tail(caller[c].route) \in Seq(DOMAIN Limit) /\ Tail(caller[c].route) # <<>>
      <4>1. /\ Tail(caller[c].route) \in Seq(DOMAIN Limit)
            /\ Len(Tail(caller[c].route)) = Len(caller[c].route) - 1
        BY <1>2, HeadTailProperties, Zenon
      <4>2. Len(caller[c].route) \in Nat \ {0} /\ Len(<<>>) = 0
        BY <1>2, EmptySeq, Zenon
      <4>3. Len(Tail(caller[c].route)) # 0
        BY <2>2, <4>1, <4>2
      <4> QED BY <4>1, <4>2, <4>3
    <3> QED
      BY <2>2, <3>1, LimiterAssumption DEF NoCaller, SoundCaller, PcType
  <2> QED BY <2>1, <2>2
<1>4. Bucket(c) \in DOMAIN Limit /\ s \in Ages
  BY <1>1, BucketKnown
<1>5. counter \in Tables /\ passed \in Tables /\ lost \in Tables /\ late \in Tables
  BY DEF LimiterInv, TablesSound, Tables
<1>6. /\ passed' \in Tables
      /\ \A b \in DOMAIN Limit, a \in Ages :
           passed'[b][a] = IF b = Bucket(c) /\ a = s THEN passed[b][a] + 1 ELSE passed[b][a]
  BY <1>1, <1>4, <1>5, PlusAt
<1>7. late' \in Tables
  BY <1>1, <1>4, <1>5, PlusAt
<1>8. TablesSound'
  BY <1>1, <1>5, <1>6, <1>7 DEF TablesSound, Tables
<1>9. \A b \in DOMAIN Limit, a \in Ages :
        Rest(b, a)' = Rest(b, a) - (IF b = Bucket(c) /\ a = s THEN 1 ELSE 0)
  BY <1>1, <1>5, <1>6 DEF Rest, Tables
<1> HIDE DEF q
<1> QED
  BY <1>1, <1>3, <1>8, <1>9, Leaves

(* At the end of a slot every table and every request in flight moves on by one;
   what falls out at the end no request reads any more. *)
LEMMA NextSlotKeeps ==
  ASSUME LimiterInv, NextSlot
  PROVE  LimiterInv'
<1>1. \A table \in {counter, passed, late, lost} : Aged(table) \in Tables
  <2> SUFFICES ASSUME NEW table \in Tables PROVE Aged(table) \in Tables
    BY DEF LimiterInv, TablesSound, Tables
  <2>1. \A a \in Ages : a # 0 => a - 1 \in Ages
    BY LimiterAssumption DEF Ages
  <2> QED
    BY <2>1 DEF Tables, Aged
<1>2. TablesSound'
  BY <1>1 DEF NextSlot, TablesSound, Tables
<1>3. CallersSound'
  <2>1. \A c \in Callers : SoundCaller(caller'[c])
    <3> SUFFICES ASSUME NEW c \in Callers PROVE SoundCaller(caller'[c])
      OBVIOUS
    <3>1. CASE caller[c].pc = "idle"
      BY <3>1, NoCallerSound DEF NextSlot
    <3>2. CASE caller[c].pc # "idle"
      <4>1. SoundCaller(caller[c]) /\ caller[c].slot < MaxLag
        BY <3>2 DEF NextSlot, LimiterInv, CallersSound
      <4>2. caller'[c] = [caller[c] EXCEPT !.slot = @ + 1]
        BY <3>2 DEF NextSlot
      <4> QED BY <4>1, <4>2, LimiterAssumption DEF SoundCaller
    <3> QED BY <3>1, <3>2
  <2>2. caller' = [c \in Callers |-> caller'[c]]
    BY DEF NextSlot
  <2> QED BY <2>1, <2>2 DEF CallersSound, SoundCaller
<1>4. CountersExplained'
  <2> SUFFICES ASSUME NEW b \in DOMAIN Limit, NEW a \in Ages
               PROVE  counter'[b][a] = passed'[b][a] + Cardinality(InFlight(b, a)') + lost'[b][a]
    BY DEF CountersExplained
  <2>1. \A c \in Callers : caller[c].pc # "idle" =>
          /\ caller'[c].pc = caller[c].pc /\ caller'[c].route = caller[c].route
          /\ caller[c].slot \in 0 .. MaxLag /\ caller'[c].slot = caller[c].slot + 1
    BY DEF NextSlot, LimiterInv, CallersSound, SoundCaller
  <2>2. \A c \in Callers : caller[c].pc = "idle" => caller'[c].pc = "idle"
    BY DEF NextSlot, NoCaller
  <2>3. \A table \in {counter, passed, lost} :
          Aged(table)[b][a] = IF a = 0 THEN 0 ELSE table[b][a - 1]
    BY DEF Aged
  <2>4. CASE a = 0
    <3>1. InFlight(b, a)' = {}
      BY <2>1, <2>2, <2>4, LimiterAssumption DEF InFlight
    <3>2. Cardinality(InFlight(b, a)') = 0
      BY <3>1, FS_EmptySet
    <3> QED BY <2>3, <2>4, <3>2 DEF NextSlot
  <2>5. CASE a # 0
    <3>1. a - 1 \in Ages
      BY <2>5, LimiterAssumption DEF Ages
    <3>2. InFlight(b, a)' = InFlight(b, a - 1)
      <4>1. ASSUME NEW c \in Callers, caller[c].pc # "idle"
            PROVE  c \in InFlight(b, a)' <=> c \in InFlight(b, a - 1)
        <5>1. caller[c].slot \in Int /\ a \in Int
          BY <2>1, <4>1, LimiterAssumption DEF Ages
        <5>2. caller'[c].slot = a <=> caller[c].slot = a - 1
          BY <2>1, <4>1, <5>1
        <5> QED BY <2>1, <4>1, <5>2 DEF InFlight, Bucket
      <4>2. ASSUME NEW c \in Callers, caller[c].pc = "idle"
            PROVE  c \notin InFlight(b, a)' /\ c \notin InFlight(b, a - 1)
        BY <2>2, <4>2 DEF InFlight
      <4> QED BY <4>1, <4>2 DEF InFlight
    <3>3. counter[b][a - 1] = passed[b][a - 1] + Cardinality(InFlight(b, a - 1)) + lost[b][a - 1]
      BY <3>1 DEF LimiterInv, CountersExplained
    <3> QED BY <2>3, <2>5, <3>2, <3>3 DEF NextSlot
  <2> QED BY <2>4, <2>5
<1> QED
  BY <1>2, <1>3, <1>4 DEF LimiterInv

\* Every step of a request and every end of a slot keeps the invariant.
LEMMA StepKeeps == LimiterInv /\ [LimiterNext]_rvars => LimiterInv'
<1> SUFFICES ASSUME LimiterInv, [LimiterNext]_rvars PROVE LimiterInv'
  OBVIOUS
<1>1. ASSUME NEW c \in Callers, NEW r \in Incoming, Arrive(c, r) PROVE LimiterInv'
  BY <1>1, ArriveKeeps
<1>2. ASSUME NEW c \in Callers, Incr(c) PROVE LimiterInv'
  BY <1>2, IncrKeeps
<1>3. ASSUME NEW c \in Callers, Get(c) PROVE LimiterInv'
  BY <1>3, GetKeeps
<1>4. ASSUME NEW c \in Callers, Refuse(c) PROVE LimiterInv'
  BY <1>4, RefuseKeeps
<1>5. ASSUME NEW c \in Callers, Pass(c) PROVE LimiterInv'
  BY <1>5, PassKeeps
<1>6. ASSUME NEW c \in Callers, Die(c) PROVE LimiterInv'
  BY <1>6, DieKeeps
<1>7. CASE NextSlot
  BY <1>7, NextSlotKeeps
<1>8. CASE UNCHANGED rvars
  BY <1>8 DEF rvars, LimiterInv, TablesSound, CallersSound, SoundCaller, CountersExplained,
              InFlight, Bucket
<1> QED
  BY <1>1, <1>2, <1>3, <1>4, <1>5, <1>6, <1>7, <1>8 DEF LimiterNext

(* Whatever order the commands of any number of requests run in, and however
   many of them die or are overtaken by the end of a slot: a counter of Redis is
   the number of calls let through, under way or dead, and refused calls have
   left nothing behind. *)
THEOREM CountersAreExplained == LimiterSpec => []CountersExplained
<1>1. LimiterInv => CountersExplained
  BY DEF LimiterInv
<1> QED
  BY <1>1, InitEstablishes, StepKeeps, PTL DEF LimiterSpec

-----------------------------------------------------------------------------
(* LimitKept *)

Window == 1 .. Steps - 1

\* The older slots of a window are kept ages, and not the current one.
LEMMA WindowSound ==
  IsFiniteSet(Window) /\ (\A a \in Window : a \in Ages /\ a # 0) /\ 0 \in Ages
<1>1. 1 \in Int /\ Steps - 1 \in Int
  BY LimiterAssumption
<1>2. IsFiniteSet(Window)
  BY <1>1, FS_Interval DEF Window
<1>3. \A a \in Window : a \in Ages /\ a # 0
  BY LimiterAssumption DEF Window, Ages
<1> QED BY <1>2, <1>3, LimiterAssumption DEF Ages

(* What was let through in time in the older slots is a number. *)
LEMMA OlderInt ==
  ASSUME LimiterInv, NEW b \in DOMAIN Limit
  PROVE  Older(b) \in Int /\ \A a \in Ages : OnTime(b)[a] \in Int
<1>1. PICK f : f = OnTime(b)
  OBVIOUS
<1>2. \A a \in Ages : f[a] \in Int
  BY <1>1 DEF OnTime, LimiterInv, TablesSound
<1>3. \A a \in Window : f[a] \in Int
  BY <1>2, WindowSound
<1>4. SumFunctionOnSet(f, Window) \in Int
  BY <1>3, WindowSound, SumInt
<1> QED BY <1>1, <1>2, <1>4 DEF Older, Window

(* It changes only with the older slots. *)
LEMMA SameOlder ==
  ASSUME NEW b \in DOMAIN Limit,
         \A a \in Ages \ {0} : passed'[b][a] - late'[b][a] = passed[b][a] - late[b][a]
  PROVE  Older(b)' = Older(b)
<1>1. PICK f, g : f = OnTime(b)' /\ g = OnTime(b)
  OBVIOUS
<1>2. \A a \in Ages : f[a] = passed'[b][a] - late'[b][a] /\ g[a] = passed[b][a] - late[b][a]
  BY <1>1 DEF OnTime
<1>3. \A a \in Window : f[a] = g[a]
  BY <1>2, WindowSound
<1>4. SumFunctionOnSet(f, Window) = SumFunctionOnSet(g, Window)
  BY <1>3, WindowSound, SumSame
<1> QED BY <1>1, <1>4 DEF Older, Window

(* The calls that may still pass are some of those in flight. *)
LEMMA PassingFly ==
  ASSUME NEW b
  PROVE  /\ IsFiniteSet(Passing(b)) /\ Cardinality(Passing(b)) \in Nat
         /\ Cardinality(Passing(b)) <= Cardinality(InFlight(b, 0))
<1>1. Passing(b) \subseteq InFlight(b, 0)
  BY DEF Passing, MayPass, InFlight, Bucket
<1>2. IsFiniteSet(InFlight(b, 0))
  BY InFlightFinite
<1> QED BY <1>1, <1>2, FS_Subset, FS_CardinalityType

(* One request changes while the older slots stay: so does the number of calls
   that may pass, by that request. *)
LEMMA PassingReplaced ==
  ASSUME LimiterInv, NEW c \in Callers, NEW q, caller' = [caller EXCEPT ![c] = q],
         NEW b, Older(b)' = Older(b)
  PROVE  Cardinality(Passing(b)') = Cardinality(Passing(b))
           + (IF MayPass(q, b) THEN 1 ELSE 0) - (IF MayPass(caller[c], b) THEN 1 ELSE 0)
<1>1. caller' = [d \in Callers |-> IF d = c THEN q ELSE caller[d]]
  BY DEF LimiterInv, CallersSound
<1>2. caller'[c] = q /\ \A d \in Callers \ {c} : caller'[d] = caller[d]
  BY <1>1
<1>3. PICK S, T : S = Passing(b) /\ T = Passing(b)'
  OBVIOUS
<1>4. S \ {c} = T \ {c}
  BY <1>2, <1>3 DEF Passing, MayPass
<1>5. (c \in S <=> MayPass(caller[c], b)) /\ (c \in T <=> MayPass(q, b))
  BY <1>2, <1>3 DEF Passing, MayPass
<1>6. IsFiniteSet(S)
  BY <1>3, PassingFly
<1>7. Cardinality(T) = Cardinality(S) + (IF c \in T THEN 1 ELSE 0) - (IF c \in S THEN 1 ELSE 0)
  BY <1>4, <1>6, OneElement
<1> QED BY <1>3, <1>5, <1>7

\* One if q may pass bucket b.
Place(q, b) == IF MayPass(q, b) THEN 1 ELSE 0

(* A step of one request keeps the room if it leaves the older slots alone and
   what it lets through had its place; or if there is room for one more. *)
LEMMA RoomSettles ==
  ASSUME LimiterInv, RoomKept, LimiterInv', NEW c \in Callers, NEW q,
         caller' = [caller EXCEPT ![c] = q],
         \A b \in DOMAIN Limit, a \in Ages \ {0} :
           passed'[b][a] - late'[b][a] = passed[b][a] - late[b][a],
         \A b \in DOMAIN Limit :
           \/ passed'[b][0] + Place(q, b) <= passed[b][0] + Place(caller[c], b)
           \/ /\ Place(caller[c], b) = 0 /\ passed'[b][0] = passed[b][0]
              /\ passed[b][0] + Cardinality(InFlight(b, 0)) + 1 + Older(b) <= Limit[b]
  PROVE  RoomKept'
<1> SUFFICES ASSUME NEW b \in DOMAIN Limit
             PROVE  passed'[b][0] + Cardinality(Passing(b)') + Older(b)' <= Limit[b]
  BY DEF RoomKept
<1>1. Older(b)' = Older(b) /\ Older(b) \in Int
  BY SameOlder, OlderInt
<1>2. Cardinality(Passing(b)') = Cardinality(Passing(b)) + Place(q, b) - Place(caller[c], b)
  BY <1>1, PassingReplaced DEF Place
<1>3. passed[b][0] + Cardinality(Passing(b)) + Older(b) <= Limit[b]
  BY DEF RoomKept
<1>4. passed[b][0] \in Int /\ passed'[b][0] \in Int /\ Limit[b] \in Int
  BY WindowSound, LimiterAssumption DEF LimiterInv, TablesSound
<1>5. /\ Cardinality(Passing(b)) \in Int /\ Cardinality(InFlight(b, 0)) \in Int
      /\ Cardinality(Passing(b)) <= Cardinality(InFlight(b, 0))
  BY PassingFly, InFlightFinite
<1>6. Place(q, b) \in {0, 1} /\ Place(caller[c], b) \in {0, 1}
  BY DEF Place
<1>7. CASE passed'[b][0] + Place(q, b) <= passed[b][0] + Place(caller[c], b)
  BY <1>1, <1>2, <1>3, <1>4, <1>5, <1>6, <1>7
<1>8. CASE /\ Place(caller[c], b) = 0 /\ passed'[b][0] = passed[b][0]
           /\ passed[b][0] + Cardinality(InFlight(b, 0)) + 1 + Older(b) <= Limit[b]
  BY <1>1, <1>2, <1>4, <1>5, <1>6, <1>8
<1> QED BY <1>7, <1>8

(* A table keeps what HistorySound says when one of its counters goes up. *)
LEMMA HistoryKept ==
  ASSUME HistorySound, NEW b \in DOMAIN Limit, NEW s \in Ages, LimiterInv,
         \/ lost' = Plus(lost, b, s, 1) /\ UNCHANGED <<passed, late>>
         \/ /\ passed' = Plus(passed, b, s, 1) /\ UNCHANGED lost
            /\ IF s > 0 THEN late' = Plus(late, b, s, 1) ELSE UNCHANGED late
         \/ UNCHANGED <<passed, late, lost>>
  PROVE  HistorySound'
<1>0. 0 \in Ages
  BY WindowSound
<1>1. passed \in Tables /\ late \in Tables /\ lost \in Tables
  BY DEF LimiterInv, TablesSound, Tables
<1>2. CASE lost' = Plus(lost, b, s, 1) /\ UNCHANGED <<passed, late>>
  <2>1. \A d \in DOMAIN Limit, e \in Ages :
          lost'[d][e] = IF d = b /\ e = s THEN lost[d][e] + 1 ELSE lost[d][e]
    <3>1. lost' = Plus(lost, b, s, 1)
      BY <1>2
    <3> QED BY <1>1, <3>1, PlusAt
  <2>2. \A d \in DOMAIN Limit, e \in Ages : lost[d][e] \in Int
    BY <1>1 DEF Tables
  <2> QED BY <1>2, <2>1, <2>2 DEF HistorySound
<1>3. CASE /\ passed' = Plus(passed, b, s, 1) /\ UNCHANGED lost
           /\ IF s > 0 THEN late' = Plus(late, b, s, 1) ELSE UNCHANGED late
  <2>1. \A d \in DOMAIN Limit, e \in Ages :
          passed'[d][e] = IF d = b /\ e = s THEN passed[d][e] + 1 ELSE passed[d][e]
    <3>1. passed' = Plus(passed, b, s, 1)
      BY <1>3
    <3> QED BY <1>1, <3>1, PlusOne
  <2>2. CASE s > 0
    <3>1. \A d \in DOMAIN Limit, e \in Ages :
            late'[d][e] = IF d = b /\ e = s THEN late[d][e] + 1 ELSE late[d][e]
      <4>1. late' = Plus(late, b, s, 1)
        BY <1>3, <2>2
      <4> QED BY <1>1, <4>1, PlusOne
    <3> QED BY <1>0, <1>1, <1>3, <2>1, <2>2, <3>1 DEF HistorySound, Tables
  <2>3. CASE ~ s > 0
    BY <1>0, <1>1, <1>3, <2>1, <2>3 DEF HistorySound, Tables
  <2> QED BY <2>2, <2>3
<1>4. CASE UNCHANGED <<passed, late, lost>>
  BY <1>4 DEF HistorySound
<1> QED BY <1>2, <1>3, <1>4

\* q is not in flight.
Lands(q) == q.pc \in {"idle", "incr"}

(* A request that arrives, is refused or dies takes no place. *)
LEMMA NoPlace ==
  ASSUME LimiterInv, LimitInv, LimiterInv', NEW c \in Callers, NEW q, Lands(q),
         caller' = [caller EXCEPT ![c] = q], passed' = passed, late' = late
  PROVE  RoomKept'
<1>1. \A b \in DOMAIN Limit : Place(q, b) = 0 /\ Place(caller[c], b) \in {0, 1}
  BY DEF Place, MayPass, Lands
<1>2. \A b \in DOMAIN Limit : passed[b][0] \in Int
  BY WindowSound DEF LimiterInv, TablesSound
<1>3. \A b \in DOMAIN Limit :
        passed'[b][0] + Place(q, b) <= passed[b][0] + Place(caller[c], b)
  BY <1>1, <1>2
<1> QED BY <1>3, RoomSettles DEF LimitInv

\* A new request takes no place yet.
LEMMA ArriveLimited ==
  ASSUME LimitInv, NEW c \in Callers, NEW r \in Incoming, Arrive(c, r)
  PROVE  LimitInv'
<1>1. LimiterInv'
  BY ArriveKeeps DEF LimitInv
<1>2. HistorySound' /\ passed' = passed /\ late' = late
  BY DEF LimitInv, HistorySound, Arrive
<1> DEFINE p == IF IsClusterRequest(r) THEN NoCaller
                ELSE [NoCaller EXCEPT !.pc = "incr", !.route = RouteOf(r)]
<1>5. Lands(p)
  BY DEF NoCaller, Lands
<1>3. PICK q : q = p /\ Lands(q)
  BY <1>5
<1>4. caller' = [caller EXCEPT ![c] = q]
  BY <1>3 DEF Arrive
<1> HIDE DEF p
<1>6. RoomKept'
  <2>1. LimiterInv
    BY DEF LimitInv
  <2> QED BY <1>1, <1>2, <1>3, <1>4, <2>1, NoPlace
<1> QED BY <1>1, <1>2, <1>6 DEF LimitInv

\* A refused request gives up its place, if it had one.
LEMMA RefuseLimited ==
  ASSUME LimitInv, NEW c \in Callers, Refuse(c)
  PROVE  LimitInv'
<1>1. LimiterInv'
  BY RefuseKeeps DEF LimitInv
<1>2. /\ HistorySound' /\ passed' = passed /\ late' = late /\ Lands(NoCaller)
      /\ caller' = [caller EXCEPT ![c] = NoCaller]
  BY DEF LimitInv, HistorySound, Refuse, NoCaller, Lands
<1>3. RoomKept'
  <2>1. LimiterInv
    BY DEF LimitInv
  <2> QED BY <1>1, <1>2, <2>1, NoPlace
<1> QED BY <1>1, <1>2, <1>3 DEF LimitInv

\* A request that dies gives up its place, if it had one.
LEMMA DieLimited ==
  ASSUME LimitInv, NEW c \in Callers, Die(c)
  PROVE  LimitInv'
<1>1. LimiterInv' /\ LimiterInv
  BY DieKeeps DEF LimitInv
<1>2. /\ caller[c].pc \in {"get", "decide"} /\ passed' = passed /\ late' = late /\ Lands(NoCaller)
      /\ lost' = Plus(lost, Bucket(c), caller[c].slot, 1)
      /\ caller' = [caller EXCEPT ![c] = NoCaller]
  BY DEF Die, NoCaller, Lands
<1>3. Bucket(c) \in DOMAIN Limit /\ caller[c].slot \in Ages
  BY <1>1, <1>2, BucketKnown
<1>4. HistorySound'
  BY <1>1, <1>2, <1>3, HistoryKept DEF LimitInv
<1>5. RoomKept'
  BY <1>1, <1>2, NoPlace
<1> QED BY <1>1, <1>4, <1>5 DEF LimitInv

(* INCR: what the call read so far counts every call that may pass. *)
LEMMA IncrLimited ==
  ASSUME LimitInv, NEW c \in Callers, Incr(c)
  PROVE  LimitInv'
<1>1. LimiterInv' /\ LimiterInv
  BY IncrKeeps DEF LimitInv
<1>2. HistorySound' /\ UNCHANGED <<passed, late>> /\ caller[c].pc = "incr"
  BY DEF LimitInv, HistorySound, Incr
<1>3. Bucket(c) \in DOMAIN Limit /\ caller[c].slot \in Ages /\ SoundCaller(caller[c])
  BY <1>1, <1>2, BucketKnown DEF LimiterInv, CallersSound
<1>4. PICK n : n = counter'[Bucket(c)][caller[c].slot]
  OBVIOUS
<1>5. n = counter[Bucket(c)][caller[c].slot] + 1 /\ n \in Int
  <2>1. counter \in Tables
    BY <1>1 DEF LimiterInv, TablesSound, Tables
  <2>2. counter'[Bucket(c)][caller[c].slot] = counter[Bucket(c)][caller[c].slot] + 1
    BY <1>3, <2>1, PlusAt DEF Incr
  <2> QED BY <1>3, <1>4, <2>1, <2>2 DEF Tables
<1>6. PICK q : q = Onward(caller[c], "get", n)
  OBVIOUS
<1>7. q.pc = "get" /\ q.route = caller[c].route /\ q.slot = caller[c].slot /\ q.sum = n
  BY <1>2, <1>3, <1>5, <1>6, MovesOn DEF PcType
<1>8. caller' = [caller EXCEPT ![c] = q]
  BY <1>1, <1>4, <1>6 DEF Incr, Onward, LimiterInv, CallersSound
<1>9. ASSUME NEW b \in DOMAIN Limit
      PROVE  \/ passed'[b][0] + Place(q, b) <= passed[b][0] + Place(caller[c], b)
             \/ /\ Place(caller[c], b) = 0 /\ passed'[b][0] = passed[b][0]
                /\ passed[b][0] + Cardinality(InFlight(b, 0)) + 1 + Older(b) <= Limit[b]
  <2>1. Place(caller[c], b) = 0 /\ passed'[b][0] = passed[b][0] /\ passed[b][0] \in Int
    BY <1>1, <1>2, WindowSound DEF Place, MayPass, LimiterInv, TablesSound
  <2>2. CASE ~ MayPass(q, b)
    BY <2>1, <2>2 DEF Place
  <2>3. CASE MayPass(q, b)
    <3>1. b = Bucket(c) /\ caller[c].slot = 0 /\ n + Older(b) <= Limit[b]
      BY <1>7, <2>3 DEF MayPass, Bucket
    <3>2. counter[b][0] = passed[b][0] + Cardinality(InFlight(b, 0)) + lost[b][0]
      BY <1>1, WindowSound DEF LimiterInv, CountersExplained
    <3>3. lost[b][0] >= 0 /\ lost[b][0] \in Int /\ counter[b][0] \in Int /\ Limit[b] \in Int
      BY <1>1, WindowSound, LimiterAssumption DEF LimitInv, HistorySound, LimiterInv, TablesSound
    <3>4. Cardinality(InFlight(b, 0)) \in Int /\ Older(b) \in Int
      BY <1>1, InFlightFinite, OlderInt
    <3>5. n = counter[b][0] + 1
      BY <1>5, <3>1
    <3>6. passed[b][0] + Cardinality(InFlight(b, 0)) + 1 + Older(b) <= Limit[b]
      BY <2>1, <3>1, <3>2, <3>3, <3>4, <3>5
    <3> QED BY <2>1, <3>6
  <2> QED BY <2>2, <2>3
<1>10. RoomKept'
  BY <1>1, <1>2, <1>8, <1>9, RoomSettles DEF LimitInv
<1> QED BY <1>1, <1>2, <1>10 DEF LimitInv

(* The older counters hold what was let through in time, at least. *)
LEMMA ReadsOlder ==
  ASSUME LimitInv, NEW c \in Callers, caller[c].pc = "get", caller[c].slot = 0
  PROVE  Older(Bucket(c)) <= Read(c)
<1>1. LimiterInv /\ HistorySound
  BY DEF LimitInv
<1>2. PICK b \in DOMAIN Limit : b = Bucket(c)
  BY <1>1, BucketKnown
<1>3. PICK f, g : f = OnTime(b) /\ g = counter[b]
  OBVIOUS
<1>4. ASSUME NEW a \in Window
      PROVE  f[a] \in Int /\ g[a] \in Int /\ f[a] <= g[a]
  <2>1. a \in Ages
    BY WindowSound
  <2>2. f[a] = passed[b][a] - late[b][a]
    BY <1>3, <2>1 DEF OnTime
  <2>3. g[a] = passed[b][a] + Cardinality(InFlight(b, a)) + lost[b][a]
    BY <1>1, <1>3, <2>1 DEF LimiterInv, CountersExplained
  <2>4. /\ passed[b][a] \in Int /\ late[b][a] \in Int /\ lost[b][a] \in Int
        /\ lost[b][a] >= 0 /\ late[b][a] >= 0
    BY <1>1, <2>1 DEF LimiterInv, TablesSound, HistorySound
  <2>5. Cardinality(InFlight(b, a)) \in Nat
    BY InFlightFinite
  <2> QED BY <2>2, <2>3, <2>4, <2>5
<1>5. SumFunctionOnSet(f, Window) <= SumFunctionOnSet(g, Window)
  BY <1>4, WindowSound, SumAtMost
<1>6. (caller[c].slot + 1 .. caller[c].slot + Steps - 1) \intersect Ages = Window
  <2>1. (0 + 1 .. 0 + Steps - 1) = 1 .. Steps - 1
    BY LimiterAssumption
  <2> QED BY <2>1, WindowSound DEF Window
<1> QED BY <1>2, <1>3, <1>5, <1>6 DEF Older, Read, Window

\* A request that has read keeps its place only if what it read leaves room.
LEMMA GetLimited ==
  ASSUME LimitInv, NEW c \in Callers, Get(c)
  PROVE  LimitInv'
<1>1. LimiterInv' /\ LimiterInv
  BY GetKeeps DEF LimitInv
<1>2. HistorySound' /\ UNCHANGED <<passed, late>> /\ caller[c].pc = "get"
  BY DEF LimitInv, HistorySound, Get
<1>3. Bucket(c) \in DOMAIN Limit /\ SoundCaller(caller[c]) /\ Read(c) \in Int
  BY <1>1, <1>2, BucketKnown, ReadInt DEF LimiterInv, CallersSound
<1>4. PICK n : n = caller[c].sum + Read(c)
  OBVIOUS
<1>5. n \in Int /\ caller[c].sum \in Int
  BY <1>3, <1>4 DEF SoundCaller
<1>6. PICK q : q = Onward(caller[c], "decide", n)
  OBVIOUS
<1>7. q.pc = "decide" /\ q.route = caller[c].route /\ q.slot = caller[c].slot /\ q.sum = n
  BY <1>2, <1>3, <1>5, <1>6, MovesOn DEF PcType
<1>8. caller' = [caller EXCEPT ![c] = q]
  BY <1>1, <1>4, <1>6 DEF Get, Onward, LimiterInv, CallersSound, Read
<1>9. ASSUME NEW b \in DOMAIN Limit
      PROVE  passed'[b][0] + Place(q, b) <= passed[b][0] + Place(caller[c], b)
  <2>1. passed'[b][0] = passed[b][0] /\ passed[b][0] \in Int
    BY <1>1, <1>2, WindowSound DEF LimiterInv, TablesSound
  <2>2. CASE ~ MayPass(q, b)
    BY <2>1, <2>2 DEF Place
  <2>3. CASE MayPass(q, b)
    <3>1. b = Bucket(c) /\ caller[c].slot = 0 /\ n + 0 <= Limit[b] /\ Head(caller[c].route) = b
      BY <1>7, <2>3 DEF MayPass, Bucket
    <3>2. Older(b) <= Read(c) /\ Older(b) \in Int /\ Limit[b] \in Int
      BY <1>1, <1>2, <3>1, ReadsOlder, OlderInt, LimiterAssumption
    <3>3. caller[c].sum + Older(b) <= Limit[b]
      BY <1>3, <1>4, <1>5, <3>1, <3>2
    <3>4. MayPass(caller[c], b)
      BY <1>2, <3>1, <3>3 DEF MayPass
    <3> QED BY <2>1, <2>3, <3>4 DEF Place
  <2> QED BY <2>2, <2>3
<1>10. RoomKept'
  BY <1>1, <1>2, <1>8, <1>9, RoomSettles DEF LimitInv
<1> QED BY <1>1, <1>2, <1>10 DEF LimitInv

(* What is let through had its place, or it is late and does not count. *)
LEMMA PassLimited ==
  ASSUME LimitInv, NEW c \in Callers, Pass(c)
  PROVE  LimitInv'
<1>1. LimiterInv' /\ LimiterInv
  BY PassKeeps DEF LimitInv
<1>2. PICK s : s = caller[c].slot
  OBVIOUS
<1>3. PICK q : q = (IF Len(caller[c].route) = 1 THEN NoCaller
                    ELSE [NoCaller EXCEPT !.pc = "incr", !.route = Tail(caller[c].route)])
  OBVIOUS
<1>4. /\ caller[c].pc = "decide" /\ caller' = [caller EXCEPT ![c] = q]
      /\ ~ Exceeded(caller[c].sum, Bucket(c))
      /\ passed' = Plus(passed, Bucket(c), s, 1) /\ lost' = lost
      /\ late' = IF s > 0 THEN Plus(late, Bucket(c), s, 1) ELSE late
  BY <1>2, <1>3 DEF Pass
<1>5. Lands(q)
  BY <1>3 DEF NoCaller, Lands
<1>6. Bucket(c) \in DOMAIN Limit /\ s \in Ages
  BY <1>1, <1>2, <1>4, BucketKnown
<1>7. HistorySound'
  BY <1>1, <1>4, <1>6, HistoryKept DEF LimitInv
<1>8. passed \in Tables /\ late \in Tables
  BY <1>1 DEF LimiterInv, TablesSound, Tables
<1>9. \A d \in DOMAIN Limit, e \in Ages :
        passed'[d][e] = IF d = Bucket(c) /\ e = s THEN passed[d][e] + 1 ELSE passed[d][e]
  BY <1>4, <1>6, <1>8, PlusAt
<1>10. s \in Nat /\ caller[c].sum \in Int
  BY <1>1, <1>2, LimiterAssumption DEF LimiterInv, CallersSound, SoundCaller
<1>11. CASE s = 0
  <2>1. late' = late
    BY <1>4, <1>11
  <2>2. \A b \in DOMAIN Limit, a \in Ages \ {0} :
          passed'[b][a] - late'[b][a] = passed[b][a] - late[b][a]
    BY <1>9, <1>11, <2>1
  <2>3. ASSUME NEW b \in DOMAIN Limit
        PROVE  passed'[b][0] + Place(q, b) <= passed[b][0] + Place(caller[c], b)
    <3>1. Place(q, b) = 0 /\ Place(caller[c], b) \in {0, 1}
      BY <1>5 DEF Place, MayPass, Lands
    <3>2. passed[b][0] \in Int
      BY <1>1, WindowSound DEF LimiterInv, TablesSound
    <3>3. CASE b = Bucket(c)
      <4>1. passed'[b][0] = passed[b][0] + 1
        BY <1>9, <1>11, <3>3, WindowSound
      <4>2. caller[c].sum + 0 <= Limit[b]
        BY <1>4, <1>10, <3>3, LimiterAssumption DEF Exceeded
      <4>3. MayPass(caller[c], b)
        BY <1>2, <1>4, <1>11, <3>3, <4>2 DEF MayPass, Bucket
      <4> QED BY <3>1, <3>2, <4>1, <4>3 DEF Place
    <3>4. CASE b # Bucket(c)
      <4>1. passed'[b][0] = passed[b][0]
        BY <1>9, <3>4, WindowSound
      <4> QED BY <3>1, <3>2, <4>1
    <3> QED BY <3>3, <3>4
  <2>4. RoomKept'
    BY <1>1, <1>4, <2>2, <2>3, RoomSettles DEF LimitInv
  <2> QED BY <1>1, <1>7, <2>4 DEF LimitInv
<1>12. CASE s # 0
  <2>1. late' = Plus(late, Bucket(c), s, 1)
    BY <1>4, <1>10, <1>12
  <2>2. \A d \in DOMAIN Limit, e \in Ages :
          late'[d][e] = IF d = Bucket(c) /\ e = s THEN late[d][e] + 1 ELSE late[d][e]
    BY <1>6, <1>8, <2>1, PlusAt
  <2>3. \A b \in DOMAIN Limit, a \in Ages : passed[b][a] \in Int /\ late[b][a] \in Int
    BY <1>8 DEF Tables
  <2>4. \A b \in DOMAIN Limit, a \in Ages \ {0} :
          passed'[b][a] - late'[b][a] = passed[b][a] - late[b][a]
    BY <1>9, <2>2, <2>3
  <2>5. ASSUME NEW b \in DOMAIN Limit
        PROVE  passed'[b][0] + Place(q, b) <= passed[b][0] + Place(caller[c], b)
    <3>1. Place(q, b) = 0 /\ Place(caller[c], b) \in {0, 1}
      BY <1>5 DEF Place, MayPass, Lands
    <3>2. passed[b][0] \in Int /\ passed'[b][0] = passed[b][0]
      BY <1>9, <1>12, <2>3, WindowSound
    <3> QED BY <3>1, <3>2
  <2>6. RoomKept'
    BY <1>1, <1>4, <2>4, <2>5, RoomSettles DEF LimitInv
  <2> QED BY <1>1, <1>7, <2>6 DEF LimitInv
<1> QED BY <1>11, <1>12

(* At the end of a slot no call may pass in the new one, and the oldest slot
   leaves the window. *)
LEMMA NextSlotLimited ==
  ASSUME LimitInv, NextSlot
  PROVE  LimitInv'
<1>1. LimiterInv' /\ LimiterInv /\ HistorySound /\ RoomKept
  BY NextSlotKeeps DEF LimitInv
<1>2. ASSUME NEW b \in DOMAIN Limit, NEW a \in Ages, NEW table \in {passed, late, lost}
      PROVE  Aged(table)[b][a] = IF a = 0 THEN 0 ELSE table[b][a - 1]
  BY DEF Aged
<1>3. passed' = Aged(passed) /\ late' = Aged(late) /\ lost' = Aged(lost)
  BY DEF NextSlot
<1>4. \A a \in Ages : a # 0 => a - 1 \in Ages
  BY LimiterAssumption DEF Ages
<1>5. HistorySound'
  <2> SUFFICES ASSUME NEW b \in DOMAIN Limit, NEW a \in Ages
               PROVE  lost'[b][a] >= 0 /\ late'[b][a] >= 0 /\ late'[b][a] <= passed'[b][a]
                      /\ late'[b][0] = 0
    BY DEF HistorySound
  <2>1. late'[b][0] = 0
    BY <1>2, <1>3, WindowSound
  <2>2. CASE a = 0
    BY <1>2, <1>3, <2>1, <2>2
  <2>3. CASE a # 0
    <3>1. /\ lost'[b][a] = lost[b][a - 1] /\ late'[b][a] = late[b][a - 1]
          /\ passed'[b][a] = passed[b][a - 1]
      BY <1>2, <1>3, <2>3
    <3>2. lost[b][a - 1] >= 0 /\ late[b][a - 1] >= 0 /\ late[b][a - 1] <= passed[b][a - 1]
      BY <1>1, <1>4, <2>3 DEF HistorySound
    <3> QED BY <2>1, <3>1, <3>2
  <2> QED BY <2>2, <2>3
<1>6. ASSUME NEW b \in DOMAIN Limit
      PROVE  passed'[b][0] + Cardinality(Passing(b)') + Older(b)' <= Limit[b]
  <2>1. passed'[b][0] = 0
    BY <1>2, <1>3, WindowSound
  <2>2. Cardinality(Passing(b)') = 0
    <3>1. \A c \in Callers : ~ (caller'[c].pc \in {"get", "decide"} /\ caller'[c].slot = 0)
      <4> SUFFICES ASSUME NEW c \in Callers, caller'[c].pc \in {"get", "decide"}
                   PROVE  caller'[c].slot # 0
        OBVIOUS
      <4>1. caller'[c] = IF caller[c].pc = "idle" THEN NoCaller
                         ELSE [caller[c] EXCEPT !.slot = @ + 1]
        BY DEF NextSlot
      <4>2. caller[c].pc # "idle"
        BY <4>1 DEF NoCaller
      <4>3. caller[c].slot \in Nat /\ caller'[c].slot = caller[c].slot + 1
        BY <1>1, <4>1, <4>2, LimiterAssumption DEF LimiterInv, CallersSound, SoundCaller
      <4> QED BY <4>3
    <3>2. Passing(b)' = {}
      BY <3>1 DEF Passing, MayPass
    <3> QED BY <3>2, FS_EmptySet
  <2>3. Older(b)' <= Limit[b] /\ Older(b)' \in Int
    <3>1. PICK f, g : f = OnTime(b) /\ g = OnTime(b)'
      OBVIOUS
    <3>2. \A a \in Ages : /\ f[a] = passed[b][a] - late[b][a] /\ f[a] \in Int /\ f[a] >= 0
                          /\ a # 0 => g[a] = f[a - 1]
      <4> SUFFICES ASSUME NEW a \in Ages
                   PROVE  /\ f[a] = passed[b][a] - late[b][a] /\ f[a] \in Int /\ f[a] >= 0
                          /\ a # 0 => g[a] = f[a - 1]
        OBVIOUS
      <4>1. f[a] = passed[b][a] - late[b][a] /\ g[a] = passed'[b][a] - late'[b][a]
        BY <3>1 DEF OnTime
      <4>2. passed[b][a] \in Int /\ late[b][a] \in Int /\ late[b][a] <= passed[b][a]
        BY <1>1 DEF LimiterInv, TablesSound, HistorySound
      <4>3. a # 0 => g[a] = f[a - 1]
        <5>1. SUFFICES ASSUME a # 0 PROVE g[a] = f[a - 1]
          OBVIOUS
        <5>2. f[a - 1] = passed[b][a - 1] - late[b][a - 1]
          BY <1>4, <3>1, <5>1 DEF OnTime
        <5>3. passed'[b][a] = passed[b][a - 1] /\ late'[b][a] = late[b][a - 1]
          BY <1>2, <1>3, <5>1
        <5> QED BY <4>1, <5>2, <5>3
      <4> QED BY <4>1, <4>2, <4>3
    <3>3. SumFunctionOnSet(g, Window) <= Limit[b]
      <4>1. CASE Steps = 1
        <5>1. Window = {}
          BY <4>1 DEF Window
        <5>2. Limit[b] \in Nat
          BY LimiterAssumption
        <5> QED BY <5>1, <5>2, SumEmpty
      <4>2. CASE Steps # 1
        <5>1. PICK S : S = 0 .. Steps - 2
          OBVIOUS
        <5>2. OneUp(S) = Window
          BY <4>2, <5>1, LimiterAssumption DEF OneUp, Window
        <5>3. S \subseteq Ages /\ 0 \in S /\ S \ {0} \subseteq Window
          BY <4>2, <5>1, LimiterAssumption DEF Ages, Window
        <5>4. IsFiniteSet(S)
          BY <5>3, AgesFinite, FS_Subset
        <5>5. MovedUp(f, g, S)
          <6> SUFFICES ASSUME NEW x \in S
                       PROVE  x \in Int /\ f[x] \in Int /\ g[x + 1] = f[x]
            BY DEF MovedUp
          <6>1. x \in Nat /\ x + 1 \in Ages /\ x + 1 # 0 /\ (x + 1) - 1 = x
            BY <4>2, <5>1, LimiterAssumption DEF Ages
          <6> QED BY <3>2, <5>3, <6>1
        <5>6. SumFunctionOnSet(g, OneUp(S)) = SumFunctionOnSet(f, S)
          BY <5>2, <5>4, <5>5, WindowSound, SumShifted
        <5>7. \A x \in S : f[x] \in Int
          BY <3>2, <5>3
        <5>8. SumFunctionOnSet(f, S) = f[0] + SumFunctionOnSet(f, S \ {0})
          <6>1. PICK z : z = 0
            OBVIOUS
          <6>2. z \in S
            BY <5>3, <6>1
          <6>3. SumFunctionOnSet(f, S) = f[z] + SumFunctionOnSet(f, S \ {z})
            BY <5>4, <5>7, <6>2, SumWithout
          <6> QED BY <6>1, <6>3
        <5>9. SumFunctionOnSet(f, S \ {0}) <= SumFunctionOnSet(f, Window)
          <6>1. PICK w : w \in Window /\ Window \ {w} = S \ {0}
            <7>1. Steps - 1 \in Window /\ Window \ {Steps - 1} = S \ {0}
              BY <4>2, <5>1, LimiterAssumption DEF Window
            <7> QED BY <7>1
          <6>2. \A x \in Window : f[x] \in Int /\ f[x] >= 0
            BY <3>2, WindowSound
          <6>3. \A x \in Window : f[x] \in Int
            BY <6>2
          <6>4. IsFiniteSet(Window)
            BY WindowSound
          <6>5. SumFunctionOnSet(f, Window) = f[w] + SumFunctionOnSet(f, Window \ {w})
            BY <6>1, <6>3, <6>4, SumWithout
          <6>6. SumFunctionOnSet(f, Window \ {w}) \in Int
            <7>1. IsFiniteSet(Window \ {w})
              BY WindowSound, FS_Subset
            <7>2. \A x \in Window \ {w} : f[x] \in Int
              BY <6>2
            <7> QED BY <7>1, <7>2, SumInt
          <6>7. SumFunctionOnSet(f, S \ {0}) = SumFunctionOnSet(f, Window \ {w})
            BY <6>1
          <6>8. f[w] \in Int /\ f[w] >= 0
            BY <6>1, <6>2
          <6>9. PICK all, part, one : /\ all = SumFunctionOnSet(f, Window) /\ one = f[w]
                                      /\ part = SumFunctionOnSet(f, Window \ {w})
            OBVIOUS
          <6>10. all = one + part /\ one \in Int /\ part \in Int /\ one >= 0
            BY <6>5, <6>6, <6>8, <6>9
          <6>11. part <= all
            BY <6>10
          <6> QED BY <6>7, <6>9, <6>11
        <5>10. f[0] = passed[b][0] /\ f[0] \in Int
          BY <1>1, <3>2, WindowSound DEF HistorySound, LimiterInv, TablesSound
        <5>11. /\ Cardinality(Passing(b)) \in Nat /\ Older(b) \in Int /\ Limit[b] \in Int
               /\ Older(b) = SumFunctionOnSet(f, Window)
          BY <1>1, <3>1, PassingFly, OlderInt, LimiterAssumption DEF Older, Window
        <5>12. passed[b][0] + Cardinality(Passing(b)) + Older(b) <= Limit[b]
          BY <1>1 DEF RoomKept
        <5>13. SumFunctionOnSet(f, S \ {0}) \in Int
          <6>1. IsFiniteSet(S \ {0}) /\ \A x \in S \ {0} : f[x] \in Int
            BY <5>4, <5>7, FS_Subset
          <6> QED BY <6>1, SumInt
        <5> QED BY <5>2, <5>6, <5>8, <5>9, <5>10, <5>11, <5>12, <5>13
      <4> QED BY <4>1, <4>2
    <3>4. SumFunctionOnSet(g, Window) \in Int
      <4>1. \A a \in Window : g[a] \in Int
        BY <1>4, <3>2, WindowSound
      <4> QED BY <4>1, WindowSound, SumInt
    <3> QED BY <3>1, <3>3, <3>4 DEF Older, Window
  <2> QED BY <2>1, <2>2, <2>3
<1> QED BY <1>1, <1>5, <1>6 DEF LimitInv, RoomKept

\* Every step keeps room for the calls that may still pass.
LEMMA LimitStep == LimitInv /\ [LimiterNext]_rvars => LimitInv'
<1> SUFFICES ASSUME LimitInv, [LimiterNext]_rvars PROVE LimitInv'
  OBVIOUS
<1>1. ASSUME NEW c \in Callers, NEW r \in Incoming, Arrive(c, r) PROVE LimitInv'
  BY <1>1, ArriveLimited
<1>2. ASSUME NEW c \in Callers, Incr(c) \/ Get(c) \/ Refuse(c) \/ Pass(c) \/ Die(c)
      PROVE  LimitInv'
  BY <1>2, IncrLimited, GetLimited, RefuseLimited, PassLimited, DieLimited
<1>3. CASE NextSlot
  BY <1>3, NextSlotLimited
<1>4. CASE UNCHANGED rvars
  <2>1. LimiterInv'
    BY <1>4, StepKeeps DEF LimitInv
  <2>2. HistorySound'
    BY <1>4 DEF rvars, LimitInv, HistorySound
  <2>3. RoomKept'
    BY <1>4 DEF rvars, LimitInv, RoomKept, Passing, MayPass, Older, OnTime
  <2> QED BY <2>1, <2>2, <2>3 DEF LimitInv
<1> QED BY <1>1, <1>2, <1>3, <1>4 DEF LimiterNext

\* At first nothing was let through.
LEMMA LimitInit == LimiterInit => LimitInv
<1> SUFFICES ASSUME LimiterInit PROVE LimitInv
  OBVIOUS
<1>1. LimiterInv
  BY InitEstablishes
<1>2. /\ passed = Zero /\ late = Zero /\ lost = Zero
      /\ \A b \in DOMAIN Limit, a \in Ages : Zero[b][a] = 0
  BY DEF LimiterInit, Zero
<1>3. HistorySound
  BY <1>2, WindowSound DEF HistorySound
<1>4. ASSUME NEW b \in DOMAIN Limit
      PROVE  passed[b][0] + Cardinality(Passing(b)) + Older(b) <= Limit[b]
  <2>1. Passing(b) = {}
    BY DEF LimiterInit, NoCaller, Passing, MayPass
  <2>2. Cardinality(Passing(b)) = 0
    BY <2>1, FS_EmptySet
  <2>3. Older(b) = 0
    <3>1. PICK f : f = OnTime(b)
      OBVIOUS
    <3>2. \A a \in Window : f[a] = 0
      BY <1>2, <3>1, WindowSound DEF OnTime
    <3>3. SumFunctionOnSet(f, Window) = 0
      BY <3>2, WindowSound, SumZero
    <3> QED BY <3>1, <3>3 DEF Older, Window
  <2>4. passed[b][0] = 0 /\ Limit[b] \in Nat
    BY <1>2, WindowSound, LimiterAssumption
  <2> QED BY <2>2, <2>3, <2>4
<1> QED BY <1>1, <1>3, <1>4 DEF LimitInv, RoomKept

(* The sums of the property, over the whole window, are those of the invariant. *)
LEMMA WindowSplits ==
  ASSUME LimitInv, NEW b \in DOMAIN Limit
  PROVE  InWindow(passed, b) - InWindow(late, b) = passed[b][0] + Older(b)
<1>1. PICK W : W = 0 .. Steps - 1
  OBVIOUS
<1>2. W \subseteq Ages /\ W \ {0} = Window /\ 0 \in W
  BY <1>1, LimiterAssumption DEF Ages, Window
<1>3. IsFiniteSet(W)
  BY <1>2, AgesFinite, FS_Subset
<1>4. PICK f, p, l, z : f = OnTime(b) /\ p = passed[b] /\ l = late[b] /\ z = 0
  OBVIOUS
<1>5. \A a \in Ages : p[a] \in Int /\ l[a] \in Int /\ f[a] = p[a] - l[a] /\ f[a] \in Int
  BY <1>4 DEF OnTime, LimitInv, LimiterInv, TablesSound
<1>6. \A a \in W : p[a] \in Int /\ l[a] \in Int /\ f[a] = p[a] - l[a] /\ f[a] \in Int
  BY <1>2, <1>5
<1>7. SumFunctionOnSet(p, W) = SumFunctionOnSet(f, W) + SumFunctionOnSet(l, W)
  BY <1>3, <1>6, SumOfDifferences
<1>8. SumFunctionOnSet(f, W) = f[z] + SumFunctionOnSet(f, W \ {z})
  <2>1. z \in W /\ \A a \in W : f[a] \in Int
    BY <1>2, <1>4, <1>6
  <2> QED BY <1>3, <2>1, SumWithout
<1>9. f[z] = passed[b][0]
  BY <1>2, <1>4, <1>5 DEF LimitInv, HistorySound, LimiterInv, TablesSound
<1>10. SumFunctionOnSet(f, W) \in Int /\ SumFunctionOnSet(l, W) \in Int
  <2>1. (\A a \in W : f[a] \in Int) /\ \A a \in W : l[a] \in Int
    BY <1>6
  <2> QED BY <1>3, <2>1, SumInt
<1>11. InWindow(passed, b) = SumFunctionOnSet(p, W) /\ InWindow(late, b) = SumFunctionOnSet(l, W)
  BY <1>1, <1>4 DEF InWindow
<1>12. Older(b) = SumFunctionOnSet(f, W \ {z})
  BY <1>2, <1>4 DEF Older, Window
<1> QED BY <1>7, <1>8, <1>9, <1>10, <1>11, <1>12

(* However the commands of any number of requests interleave with each other and
   with the end of a slot, a bucket lets no more calls through in an interval
   than its limit, but for those that a slot ended in (ratelimiter.py, limit). *)
THEOREM LimitsAreKept == LimiterSpec => []LimitKept
<1>1. LimitInv => LimitKept
  <2> SUFFICES ASSUME LimitInv, NEW b \in DOMAIN Limit
               PROVE  InWindow(passed, b) - InWindow(late, b) <= Limit[b]
    BY DEF LimitKept
  <2>1. InWindow(passed, b) - InWindow(late, b) = passed[b][0] + Older(b)
    BY WindowSplits
  <2>2. passed[b][0] + Cardinality(Passing(b)) + Older(b) <= Limit[b]
    BY DEF LimitInv, RoomKept
  <2>3. /\ passed[b][0] \in Int /\ Older(b) \in Int /\ Cardinality(Passing(b)) \in Nat
        /\ Limit[b] \in Int
    BY OlderInt, PassingFly, WindowSound, LimiterAssumption DEF LimitInv, LimiterInv, TablesSound
  <2> QED BY <2>1, <2>2, <2>3
<1> QED
  BY <1>1, LimitInit, LimitStep, PTL DEF LimiterSpec

=============================================================================
