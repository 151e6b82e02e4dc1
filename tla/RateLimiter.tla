----------------------------- MODULE RateLimiter -----------------------------
(***************************************************************************)
(* Limiting requests (acoustid/ratelimiter.py and _rate_limit of           *)
(* api/v2/__init__.py).  A request passes up to three buckets: that of its *)
(* application, the global one and that of its address.  Redis has one     *)
(* counter per bucket and slot of time; a call adds one to the slot it was *)
(* made in, reads the Steps - 1 slots before, and takes its one back when  *)
(* the sum is over the limit.  The commands of different requests          *)
(* interleave and a slot may end between them.                             *)
(*                                                                         *)
(* Slots are named by their age: 0 is the present one.  A call keeps the   *)
(* slot it read from the clock.                                            *)
(***************************************************************************)
EXTENDS Integers, Sequences, FiniteSetsExt, Functions

CONSTANTS
  Callers,      \* requests under way at a time
  Incoming,     \* requests that may arrive: [secret, application, ip]
  ClusterSecret, None,
  OwnLimit,     \* applications with a limit of their own
  Limit,        \* of each bucket, rate * interval
  Steps,        \* slots of an interval (4 in the code)
  MaxLag,       \* bound: slots a request may take
  MaxLost       \* bound: requests that die in a call

\* The buckets a request passes, in this order: that of the application it
\* names, unless it names none; the global one, if there is such a limit; that
\* of the address, unless the application has a limit of its own.
RouteOf(r) ==
  (IF r.application = None THEN <<>> ELSE <<r.application>>)
    \o (IF "global" \in DOMAIN Limit THEN <<"global">> ELSE <<>>)
    \o (IF r.application \in OwnLimit THEN <<>> ELSE <<r.ip>>)

ASSUME LimiterAssumption ==
  /\ IsFiniteSet(Callers) /\ None \notin OwnLimit
  /\ Steps \in Nat \ {0} /\ MaxLag \in Nat
  /\ \A r \in Incoming : RouteOf(r) \in Seq(DOMAIN Limit)
  /\ Limit \in [DOMAIN Limit -> Nat]

\* Ages of the slots that matter: those a request that lags behind may read.
Ages == 0 .. Steps + MaxLag - 1

VARIABLES
  counter,  \* Redis: the counter of each bucket and slot
  caller,   \* each request under way
  passed,   \* history: calls of each bucket and slot that were let through
  late,     \* history: of these, those that a slot ended in
  lost      \* history: requests that died before they took their one back

rvars == <<counter, caller, passed, late, lost>>

NoCaller == [pc |-> "idle", route |-> <<>>, slot |-> 0, sum |-> 0]
Zero == [b \in DOMAIN Limit |-> [a \in Ages |-> 0]]

LimiterInit ==
  /\ counter = Zero /\ passed = Zero /\ late = Zero /\ lost = Zero
  /\ caller = [c \in Callers |-> NoCaller]

Bucket(c) == Head(caller[c].route)

Plus(table, b, a, n) == [table EXCEPT ![b][a] = @ + n]

\* The caller knows the secret of the cluster; an empty one is none.
IsClusterRequest(r) == None \notin {ClusterSecret, r.secret} /\ r.secret = ClusterSecret

\* A request of the cluster itself goes to its handler and passes no bucket.
Arrive(c, r) ==
  /\ caller[c].pc = "idle"
  /\ caller' = [caller EXCEPT ![c] =
       IF IsClusterRequest(r) THEN NoCaller
       ELSE [NoCaller EXCEPT !.pc = "incr", !.route = RouteOf(r)]]
  /\ UNCHANGED <<counter, passed, late, lost>>

Incr(c) ==
  LET slot == caller[c].slot IN
  /\ caller[c].pc = "incr"
  /\ counter' = Plus(counter, Bucket(c), slot, 1)
  /\ caller' = [caller EXCEPT ![c].pc = "get", ![c].sum = counter'[Bucket(c)][slot]]
  /\ UNCHANGED <<passed, late, lost>>

\* The older slots; one command each in the code, one step here: these slots
\* are over, and only calls that lag behind change them still.
Get(c) ==
  LET slot == caller[c].slot IN
  /\ caller[c].pc = "get"
  /\ caller' = [caller EXCEPT ![c].pc = "decide",
       ![c].sum = @ + SumFunctionOnSet(counter[Bucket(c)],
                                       (slot + 1 .. slot + Steps - 1) \intersect Ages)]
  /\ UNCHANGED <<counter, passed, late, lost>>

\* The request that asks is not counted itself.
ExceededBefore(sum, b) == sum - 1 > Limit[b]

Exceeded(sum, b) == sum > Limit[b]

\* The request is refused without DECR.
RefuseCounted(c) ==
  /\ caller[c].pc = "decide" /\ Exceeded(caller[c].sum, Bucket(c))
  /\ caller' = [caller EXCEPT ![c] = NoCaller]
  /\ UNCHANGED <<counter, passed, late, lost>>

\* Over the limit: DECR and TooManyRequests.
Refuse(c) ==
  /\ caller[c].pc = "decide" /\ Exceeded(caller[c].sum, Bucket(c))
  /\ counter' = Plus(counter, Bucket(c), caller[c].slot, -1)
  /\ caller' = [caller EXCEPT ![c] = NoCaller]
  /\ UNCHANGED <<passed, late, lost>>

\* Within the limit: on to the next bucket, whose call reads the clock again,
\* or to the handler.
Pass(c) ==
  LET q == caller[c] IN
  /\ q.pc = "decide" /\ ~ Exceeded(q.sum, Bucket(c))
  /\ passed' = Plus(passed, Bucket(c), q.slot, 1)
  /\ late' = IF q.slot > 0 THEN Plus(late, Bucket(c), q.slot, 1) ELSE late
  /\ caller' = [caller EXCEPT ![c] = IF Len(q.route) = 1 THEN NoCaller
                         ELSE [NoCaller EXCEPT !.pc = "incr", !.route = Tail(q.route)]]
  /\ UNCHANGED <<counter, lost>>

\* The request dies or Redis fails after INCR: its one stays.
Die(c) ==
  LET q == caller[c] IN
  /\ q.pc \in {"get", "decide"}
  /\ MapThenSumSet(LAMBDA b : SumFunction(lost[b]), DOMAIN Limit) < MaxLost
  /\ lost' = Plus(lost, Bucket(c), q.slot, 1)
  /\ caller' = [caller EXCEPT ![c] = NoCaller]
  /\ UNCHANGED <<counter, passed, late>>

\* Another slot begins; the counters expire when they are not read any more.
Aged(table) ==
  [b \in DOMAIN Limit |-> [a \in Ages |-> IF a = 0 THEN 0 ELSE table[b][a - 1]]]

NextSlot ==
  /\ \A c \in Callers : caller[c].pc # "idle" => caller[c].slot < MaxLag
  /\ counter' = Aged(counter) /\ passed' = Aged(passed)
  /\ late' = Aged(late) /\ lost' = Aged(lost)
  /\ caller' = [c \in Callers |-> IF caller[c].pc = "idle" THEN NoCaller
                                  ELSE [caller[c] EXCEPT !.slot = @ + 1]]

LimiterNext ==
  \/ \E c \in Callers :
       \/ \E r \in Incoming : Arrive(c, r)
       \/ Incr(c) \/ Get(c) \/ Refuse(c) \/ Pass(c) \/ Die(c)
  \/ NextSlot

LimiterSpec == LimiterInit /\ [][LimiterNext]_rvars

-----------------------------------------------------------------------------
(* Properties *)

\* Calls of bucket b and slot a that have added their one and not decided yet.
InFlight(b, a) ==
  {c \in Callers : caller[c].pc \in {"get", "decide"} /\ Bucket(c) = b /\ caller[c].slot = a}

PcType == {"idle", "incr", "get", "decide"}

\* A request under way has a bucket left on its route and a slot that it does
\* not lag behind too far.
SoundCaller(q) ==
  /\ DOMAIN q = {"pc", "route", "slot", "sum"}
  /\ q.pc \in PcType /\ q.slot \in 0 .. MaxLag /\ q.sum \in Int /\ q.route \in Seq(DOMAIN Limit)
  /\ q.pc # "idle" => q.route # <<>>

CallersSound ==
  /\ caller = [c \in Callers |-> caller[c]]
  /\ \A c \in Callers : SoundCaller(caller[c])

TablesSound ==
  \A table \in {counter, passed, late, lost} : table \in [DOMAIN Limit -> [Ages -> Int]]

(* A counter stands for the calls let through, those that have not decided yet
   and those that died; a refused request leaves nothing behind in its bucket,
   whatever order the commands of several requests run in. *)
CountersExplained ==
  \A b \in DOMAIN Limit, a \in Ages :
    counter[b][a] = passed[b][a] + Cardinality(InFlight(b, a)) + lost[b][a]

\* The inductive invariant behind CountersExplained.
LimiterInv ==
  TablesSound /\ CallersSound /\ CountersExplained

InWindow(table, b) == SumFunctionOnSet(table[b], 0 .. Steps - 1)

(* No bucket lets more than its limit through in an interval, but for calls
   that a slot ended in: these counted themselves where the others had read
   already. *)
LimitKept ==
  \A b \in DOMAIN Limit : InWindow(passed, b) - InWindow(late, b) <= Limit[b]

-----------------------------------------------------------------------------
(* The inductive invariant behind LimitKept *)

\* Calls of bucket b let through in the slot they were made in.
OnTime(b) == [a \in Ages |-> passed[b][a] - late[b][a]]

\* Of these, those of the older slots: no call adds to them any more.
Older(b) == SumFunctionOnSet(OnTime(b), 1 .. Steps - 1)

\* May the call of q still pass bucket b on time?  What it has read, or will read
\* at least, is within the limit.
MayPass(q, b) ==
  /\ q.pc \in {"get", "decide"} /\ Head(q.route) = b /\ q.slot = 0
  /\ q.sum + (IF q.pc = "get" THEN Older(b) ELSE 0) <= Limit[b]

Passing(b) == {c \in Callers : MayPass(caller[c], b)}

\* Only a slot that is over has late calls.
HistorySound ==
  \A b \in DOMAIN Limit, a \in Ages :
    lost[b][a] >= 0 /\ late[b][a] >= 0 /\ late[b][a] <= passed[b][a] /\ late[b][0] = 0

\* There is room for every call that may still pass.
RoomKept ==
  \A b \in DOMAIN Limit : passed[b][0] + Cardinality(Passing(b)) + Older(b) <= Limit[b]

LimitInv == LimiterInv /\ HistorySound /\ RoomKept
=============================================================================
