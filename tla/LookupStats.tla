---------------------------- MODULE LookupStats ----------------------------
(***************************************************************************)
(* Lookup and user agent statistics: API processes count in a Redis hash,  *)
(* workers move the counts into PostgreSQL (acoustid/data/stats.py,        *)
(* acoustid/scripts/update_lookup_stats.py and update_user_agent_stats.py, *)
(* which is the same code over another hash).  Redis and PostgreSQL share  *)
(* no transaction, and nothing keeps two runs over one hash apart.         *)
(*                                                                         *)
(* A key stands for one (date, hour, application, type); the upserts of    *)
(* one key by two transactions are serialised by its row lock.             *)
(***************************************************************************)
EXTENDS Integers, FiniteSetsExt

CONSTANTS
  Keys,        \* counters of one hash
  Unknown,     \* keys of applications the database does not have
  Workers,     \* workers that may run the task for this hash
  MaxLookups,  \* bound: lookups counted per key
  MaxFaults,   \* bound: crashes and failed calls
  MaxOverlaps  \* bound: runs started while another one is under way

ASSUME StatsAssumption ==
  /\ Keys # {} /\ Unknown \subseteq Keys /\ IsFiniteSet(Workers)
  /\ MaxLookups \in Nat /\ MaxFaults \in Nat /\ MaxOverlaps \in Nat

VARIABLES
  role,      \* cluster.role of this deployment
  counter,   \* the Redis hash: value of each field, 0 if it is absent
  present,   \* the fields that exist
  db,        \* committed counts in PostgreSQL
  open,      \* count added by the open transaction that locks the row
  run,       \* the task run of each worker
  lookups,   \* history: increments that reached Redis
  drift,     \* history: counts lost (+) or counted twice (-)
  faults,    \* history: faults so far
  overlaps   \* history: overlapping runs so far

bounds == <<faults, overlaps>>
vars == <<role, counter, present, db, open, run, lookups, drift, bounds>>

Zero == [k \in Keys |-> 0]

Off == [pc |-> "off", seen |-> Zero, todo |-> {}, key |-> CHOOSE k \in Keys : TRUE]

Init ==
  /\ role \in {"master", "slave"}
  /\ counter = Zero /\ present = {}
  /\ db = Zero /\ open = Zero
  /\ run = [w \in Workers |-> Off]
  /\ lookups = Zero
  /\ drift = Zero
  /\ faults = 0 /\ overlaps = 0

Key(w) == run[w].key
Seen(w) == run[w].seen[Key(w)]

(* The row of key k is locked by another worker's open transaction. *)
RowLocked(w, k) ==
  \E v \in Workers \ {w} : run[v].pc \in {"upserted", "decremented"} /\ Key(v) = k

Goto(w, pc) == run' = [run EXCEPT ![w].pc = pc]

(* update_lookup_counter: HINCRBY key 1.  An increment that Redis refuses is
   logged and given up, so it was never counted. *)
Count(k) ==
  /\ lookups[k] < MaxLookups
  /\ counter' = [counter EXCEPT ![k] = counter[k] + 1]
  /\ present' = present \cup {k}
  /\ lookups' = [lookups EXCEPT ![k] = lookups[k] + 1]
  /\ UNCHANGED <<role, db, open, run, drift, bounds>>

(* HGETALL: the values that the whole run works from. *)
Fetch(w) ==
  /\ run[w].pc = "off"
  /\ IF \E v \in Workers : run[v].pc # "off"
     THEN overlaps < MaxOverlaps /\ overlaps' = overlaps + 1
     ELSE UNCHANGED overlaps
  /\ run' = [run EXCEPT ![w] = [Off EXCEPT !.pc = "next", !.seen = counter, !.todo = present]]
  /\ UNCHANGED <<role, counter, present, db, open, lookups, drift, faults>>

(* The next key of the hash, in whatever order Redis gave them. *)
Take(w) ==
  \E k \in run[w].todo :
    /\ run[w].pc = "next"
    /\ run' = [run EXCEPT ![w] = [run[w] EXCEPT !.pc = "key", !.key = k,
                                                !.todo = run[w].todo \ {k}]]
    /\ UNCHANGED <<role, counter, present, db, open, lookups, drift, bounds>>

(* HDEL of the key: whatever it holds now is gone. *)
Delete(k) ==
  /\ counter' = [counter EXCEPT ![k] = 0]
  /\ present' = present \ {k}
  /\ drift' = [drift EXCEPT ![k] = drift[k] + counter[k]]

(* The count was 0 when the hash was read: "it's safe to delete". *)
DropZero(w) ==
  /\ run[w].pc = "key"
  /\ Seen(w) = 0
  /\ Delete(Key(w))
  /\ Goto(w, "next")
  /\ UNCHANGED <<role, db, open, lookups, bounds>>

(* The upsert of update_lookup_stats, in the worker's own transaction. *)
Upsert(w) ==
  /\ run[w].pc = "key"
  /\ Seen(w) # 0
  /\ role = "master"
  /\ Key(w) \notin Unknown
  /\ ~RowLocked(w, Key(w))
  /\ open' = [open EXCEPT ![Key(w)] = Seen(w)]
  /\ Goto(w, "upserted")
  /\ UNCHANGED <<role, counter, present, db, lookups, drift, bounds>>

(* An error that ends the run: the counters behind it wait for ever. *)
UnknownEndsRun(w) ==
  /\ run[w].pc = "key"
  /\ Seen(w) # 0
  /\ role = "master"
  /\ Key(w) \in Unknown
  /\ run' = [run EXCEPT ![w] = Off]
  /\ UNCHANGED <<role, counter, present, db, open, lookups, drift, bounds>>

(* Foreign key violation: roll back, HDEL, go on with the next key. *)
DiscardUnknown(w) ==
  /\ run[w].pc = "key"
  /\ Seen(w) # 0
  /\ role = "master"
  /\ Key(w) \in Unknown
  /\ Delete(Key(w))
  /\ Goto(w, "next")
  /\ UNCHANGED <<role, db, open, lookups, bounds>>

(* A slave calls the master's internal API, which upserts and commits. *)
RemoteUpsert(w) ==
  /\ run[w].pc = "key"
  /\ Seen(w) # 0
  /\ role = "slave"
  /\ Key(w) \notin Unknown
  /\ db' = [db EXCEPT ![Key(w)] = db[Key(w)] + Seen(w)]
  /\ Goto(w, "upserted")
  /\ UNCHANGED <<role, counter, present, open, lookups, drift, bounds>>

(* The master's handler fails on the foreign key.  The slave sees an HTTP
   error, not an IntegrityError: the run ends and the counter stays. *)
RemoteRefuses(w) ==
  /\ run[w].pc = "key"
  /\ Seen(w) # 0
  /\ role = "slave"
  /\ Key(w) \in Unknown
  /\ run' = [run EXCEPT ![w] = Off]
  /\ UNCHANGED <<role, counter, present, db, open, lookups, drift, bounds>>

(* The call fails: not a database error, so the run ends.  It may have been
   the answer that got lost, after the master had committed. *)
RemoteFails(w) ==
  /\ run[w].pc = "key"
  /\ Seen(w) # 0
  /\ role = "slave"
  /\ Key(w) \notin Unknown
  /\ faults < MaxFaults /\ faults' = faults + 1
  /\ \/ UNCHANGED <<db, drift>>
     \/ /\ db' = [db EXCEPT ![Key(w)] = db[Key(w)] + Seen(w)]
        /\ drift' = [drift EXCEPT ![Key(w)] = drift[Key(w)] - Seen(w)]
  /\ run' = [run EXCEPT ![w] = Off]
  /\ UNCHANGED <<role, counter, present, open, lookups, overlaps>>

(* Deleting the field instead: increments since HGETALL go with it. *)
DecrementToZero(w) ==
  /\ run[w].pc = "upserted"
  /\ counter' = [counter EXCEPT ![Key(w)] = 0]
  /\ present' = present \cup {Key(w)}
  /\ Goto(w, "decremented")
  /\ UNCHANGED <<role, db, open, lookups, drift, bounds>>

(* HINCRBY -count: what was added since HGETALL stays. *)
Decrement(w) ==
  /\ run[w].pc = "upserted"
  /\ counter' = [counter EXCEPT ![Key(w)] = counter[Key(w)] - Seen(w)]
  /\ present' = present \cup {Key(w)}
  /\ Goto(w, "decremented")
  /\ UNCHANGED <<role, db, open, lookups, drift, bounds>>

(* session.commit(), after Redis has been changed. *)
CommitKey(w) ==
  /\ run[w].pc = "decremented"
  /\ db' = [db EXCEPT ![Key(w)] = db[Key(w)] + open[Key(w)]]
  /\ open' = [open EXCEPT ![Key(w)] = 0]
  /\ Goto(w, "next")
  /\ UNCHANGED <<role, counter, present, lookups, drift, bounds>>

Finish(w) ==
  /\ run[w].pc = "next"
  /\ run[w].todo = {}
  /\ run' = [run EXCEPT ![w] = Off]
  /\ UNCHANGED <<role, counter, present, db, open, lookups, drift, bounds>>

(* The upsert of a run that died is committed by nobody and undone by nobody. *)
CrashWithoutRollback(w) ==
  /\ run[w].pc # "off"
  /\ faults < MaxFaults /\ faults' = faults + 1
  /\ run' = [run EXCEPT ![w] = Off]
  /\ UNCHANGED <<role, counter, present, db, open, lookups, drift, overlaps>>

(* The worker dies, or the commit fails: its transaction is rolled back.  On
   a master, counts already taken out of Redis are lost with it; on a slave,
   counts already committed by the master are still in Redis. *)
Crash(w) ==
  /\ run[w].pc # "off"
  /\ faults < MaxFaults /\ faults' = faults + 1
  /\ open' = IF run[w].pc \in {"upserted", "decremented"}
             THEN [open EXCEPT ![Key(w)] = 0] ELSE open
  /\ drift' =
       CASE role = "master" /\ run[w].pc = "decremented" ->
              [drift EXCEPT ![Key(w)] = drift[Key(w)] + Seen(w)]
         [] role = "slave" /\ run[w].pc = "upserted" ->
              [drift EXCEPT ![Key(w)] = drift[Key(w)] - Seen(w)]
         [] OTHER -> drift
  /\ run' = [run EXCEPT ![w] = Off]
  /\ UNCHANGED <<role, counter, present, db, lookups, overlaps>>

WorkerStep(w) ==
  \/ Fetch(w)
  \/ Take(w)
  \/ DropZero(w)
  \/ Upsert(w)
  \/ DiscardUnknown(w)
  \/ RemoteUpsert(w)
  \/ RemoteRefuses(w)
  \/ Decrement(w)
  \/ CommitKey(w)
  \/ Finish(w)

Next ==
  \/ \E k \in Keys : Count(k)
  \/ \E w \in Workers : WorkerStep(w) \/ RemoteFails(w) \/ Crash(w)

Spec == Init /\ [][Next]_vars

(* The task is queued again every minute and a run goes on until it ends. *)
StatsFairness == \A w \in Workers : WF_vars(WorkerStep(w))

FairSpec == Spec /\ StatsFairness

-----------------------------------------------------------------------------
(* Properties *)

(* Every variable stays in its set; a counter may be negative after two runs
   took the same count out of it.  A count is uncommitted only while the one
   worker whose transaction holds the row is between its upsert and its
   commit, and a field that Redis does not have holds nothing. *)
TypeOK ==
  /\ role \in {"master", "slave"}
  /\ counter \in [Keys -> Int] /\ present \subseteq Keys
  /\ db \in [Keys -> Int] /\ open \in [Keys -> Int]
  /\ run \in [Workers -> [pc : {"off", "next", "key", "upserted", "decremented"},
                          seen : [Keys -> Int], todo : SUBSET Keys, key : Keys]]
  /\ lookups \in [Keys -> Nat]
  /\ drift \in [Keys -> Int]
  /\ \A k \in Keys \ present : counter[k] = 0
  /\ \A k \in Keys : open[k] # 0 =>
       \E w \in Workers : run[w].pc \in {"upserted", "decremented"} /\ Key(w) = k

(* What worker w has put into PostgreSQL of k and not yet taken out of Redis. *)
InBoth(w, k) == IF run[w].pc = "upserted" /\ Key(w) = k THEN Seen(w) ELSE 0

Twice(k) == SumFunctionOnSet([w \in Workers |-> InBoth(w, k)], Workers)

(* Every lookup is counted once: in PostgreSQL, in an open transaction or in
   Redis, however the runs overlap, except for the drift that a crash, a
   lost answer or a delete has left. *)
CountedOnce ==
  \A k \in Keys : db[k] + open[k] + counter[k] - Twice(k) + drift[k] = lookups[k]

(* An open transaction of the master holds the count its worker has read, and
   no other worker is in the row; a slave has no transaction of its own. *)
RowsHeld ==
  IF role = "slave" THEN \A k \in Keys : open[k] = 0
  ELSE \A w \in Workers : run[w].pc \in {"upserted", "decremented"} =>
         open[Key(w)] = Seen(w) /\ ~RowLocked(w, Key(w))

(* The inductive invariant behind CountedOnce. *)
StatsInv == TypeOK /\ RowsHeld /\ CountedOnce

(* "the only way this could be 0 is if we already processed it and nothing
   touched it since then, so it's safe to delete" (update_lookup_stats.py):
   deleting the counter of a known application discards no lookup. *)
SafeToDelete ==
  [][\A k \in Keys \ Unknown : k \in present \ present' => counter[k] = 0]_vars

(* On a master every counter is emptied again and again: one that cannot be
   applied does not take "every counter behind it in this partition with
   it" (update_lookup_stats.py). *)
Drained == role = "master" => \A k \in Keys : []<>(counter[k] = 0)
=============================================================================
