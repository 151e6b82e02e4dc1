----------------------------- MODULE FeedProofs -----------------------------
(***************************************************************************)
(* Proofs about Changelog, for every number of importers, maintenance      *)
(* workers, months and fingerprints; then about Feed: the replication a    *)
(* node gets out of the changelog and the bootstrap, for every number of   *)
(* nodes, and every batch and chunk size.                                  *)
(***************************************************************************)
EXTENDS Feed, TLAPS

-----------------------------------------------------------------------------
(* Changelog *)

(* The initial state, straight from the migration, has the invariant. *)
LEMMA InitInv == Init => ChangelogInv
<1> SUFFICES ASSUME Init PROVE ChangelogInv
  OBVIOUS
<1> USE BoundsAssumption
<1>1. TypeOK
  BY DEF Init, TypeOK, Idle, Rest, Row
<1>2. IdsGivenOut
  BY DEF Init, IdsGivenOut
<1>3. OpenRowIsNewest
  BY DEF Init, OpenRowIsNewest, Idle
<1>4. CalendarInv
  BY DEF Init, CalendarInv, Rest
<1>5. MonthsFollowIds /\ WindowKept
  BY DEF Init, MonthsFollowIds, WindowKept
<1>6. DropCovered
  BY DEF Init, DropCovered, Rest
<1> QED
  BY <1>1, <1>2, <1>3, <1>4, <1>5, <1>6 DEF ChangelogInv

(* Every step of an importer, a maintenance run or the clock keeps every
   variable in its set. *)
LEMMA TypeStep == TypeOK /\ [Next]_vars => TypeOK'
<1> SUFFICES ASSUME TypeOK, [Next]_vars PROVE TypeOK'
  OBVIOUS
<1> USE BoundsAssumption DEF TypeOK, txVars
<1>1. ASSUME NEW w \in Writers, WriterStep(w) PROVE TypeOK'
  <2>1. CASE InsertFingerprint(w)
    BY <2>1 DEF InsertFingerprint, Row
  <2>2. CASE Trigger(w)
    BY <2>2 DEF Trigger, Row
  <2>3. CASE TriggerFails(w)
    BY <2>3 DEF TriggerFails, Idle, Row
  <2>4. CASE Commit(w)
    BY <2>4 DEF Commit, Idle, Row
  <2>5. CASE Rollback(w)
    BY <2>5 DEF Rollback, Idle, Row
  <2> QED BY <1>1, <2>1, <2>2, <2>3, <2>4, <2>5 DEF WriterStep
<1>2. ASSUME NEW j \in Jobs, JobStep(j) PROVE TypeOK'
  <2>1. CASE JobStart(j)
    BY <2>1 DEF JobStart
  <2>2. CASE CreatePartition(j)
    <3>1. job[j].today + job[j].offset \in Nat
      OBVIOUS
    <3>2. partitions' \subseteq Nat
      BY <2>2, <3>1 DEF CreatePartition
    <3>3. NextOffset(j) /\ UNCHANGED <<now, meta, txVars>>
      BY <2>2 DEF CreatePartition
    <3> QED BY <3>2, <3>3 DEF NextOffset, Goto
  <2>3. CASE CreateFails(j)
    BY <2>3 DEF CreateFails, NextOffset, Goto
  <2>4. CASE ListPartitions(j)
    BY <2>4 DEF ListPartitions, Goto, Cutoff
  <2>5. CASE RecordLastDeleted(j)
    <3>1. PICK m \in partitions : Upsert(m)
      BY <2>5 DEF RecordLastDeleted
    <3>2. meta' \subseteq Nat /\ \A d, e \in meta' : d = e
      BY <3>1 DEF Upsert, RowsOf, Row
    <3> QED BY <2>5, <3>2 DEF RecordLastDeleted, Goto
  <2>6. CASE RecordFails(j)
    BY <2>6 DEF RecordFails, Goto
  <2>7. CASE DropPartition(j)
    BY <2>7 DEF DropPartition, Goto
  <2>8. CASE DropFails(j)
    BY <2>8 DEF DropFails, Goto
  <2>9. CASE JobDone(j)
    BY <2>9 DEF JobDone, Rest
  <2>10. CASE JobCrash(j)
    BY <2>10 DEF JobCrash, Rest
  <2> QED BY <1>2, <2>1, <2>2, <2>3, <2>4, <2>5, <2>6, <2>7, <2>8, <2>9, <2>10
       DEF JobStep
<1>3. CASE Tick
  BY <1>3 DEF Tick
<1>4. CASE UNCHANGED vars
  BY <1>4 DEF vars
<1> QED BY <1>1, <1>2, <1>3, <1>4 DEF Next

(* A statement of the maintenance run that touches neither rows nor the
   watermark can only disturb what is said about the run itself. *)
LEMMA RunOnlyStep ==
  ASSUME ChangelogInv, TypeOK', CalendarInv', DropCovered',
         UNCHANGED <<now, meta, txVars>>
  PROVE  ChangelogInv'
<1> USE DEF ChangelogInv, txVars
<1>1. IdsGivenOut'
  BY DEF IdsGivenOut
<1>2. OpenRowIsNewest'
  BY DEF OpenRowIsNewest
<1>3. MonthsFollowIds' /\ WindowKept'
  BY DEF MonthsFollowIds, WindowKept
<1> QED BY <1>1, <1>2, <1>3

(* A run that moves on within its calendar, to months it already had, and
   not to a drop, keeps its part of the invariant. *)
LEMMA GotoStep ==
  ASSUME ChangelogInv, TypeOK', UNCHANGED <<now, meta, txVars>>,
         NEW j \in Jobs, NEW pc, NEW offset, NEW todo \in SUBSET Nat,
         pc # "dropping", Goto(j, pc, offset, todo),
         \A m \in todo : m + RETENTION_MONTHS < job[j].today
  PROVE  ChangelogInv'
<1> USE DEF ChangelogInv, TypeOK, txVars
<1>1. job'[j] = [pc |-> pc, today |-> job[j].today, offset |-> offset, todo |-> todo]
  BY DEF Goto
<1>2. \A i \in Jobs \ {j} : job'[i] = job[i]
  BY DEF Goto
<1>3. CalendarInv'
  BY <1>1, <1>2 DEF CalendarInv
<1>4. DropCovered'
  <2> SUFFICES ASSUME NEW i \in Jobs, job'[i].pc = "dropping",
                      NEW m \in job'[i].todo, Oldest(i, m)'
               PROVE  \A r \in RowsOf(m)' : \E d \in meta' : r.id <= d
    BY DEF DropCovered
  <2>1. job'[i] = job[i]
    BY <1>1, <1>2
  <2>2. RowsOf(m)' = RowsOf(m) /\ meta' = meta
    BY DEF RowsOf
  <2>3. m \in job[i].todo /\ Oldest(i, m) /\ job[i].pc = "dropping"
    BY <2>1 DEF Oldest
  <2> QED BY <2>2, <2>3 DEF DropCovered
<1> QED BY <1>3, <1>4, RunOnlyStep

(* The importer's steps: the advisory lock makes the one open row the newest
   of all, so committing it appends. *)
LEMMA WriterInv ==
  ASSUME ChangelogInv, TypeOK', NEW w \in Writers, WriterStep(w)
  PROVE  ChangelogInv'
<1> USE BoundsAssumption DEF ChangelogInv, TypeOK
<1>1. CASE InsertFingerprint(w)
  <2> USE <1>1 DEF InsertFingerprint
  <2>1. IdsGivenOut'
    BY DEF IdsGivenOut
  <2>2. OpenRowIsNewest'
    BY DEF OpenRowIsNewest, IdsGivenOut
  <2>3. CalendarInv' /\ DropCovered'
    BY DEF CalendarInv, DropCovered, Oldest, RowsOf
  <2>4. MonthsFollowIds' /\ WindowKept'
    BY DEF MonthsFollowIds, WindowKept
  <2> QED BY <2>1, <2>2, <2>3, <2>4
<1>2. CASE Trigger(w)
  <2> USE <1>2 DEF Trigger
  <2>1. IdsGivenOut'
    BY DEF IdsGivenOut, Row
  <2>2. OpenRowIsNewest'
    <3> SUFFICES ASSUME NEW v \in Writers, tx'[v].pc = "logged"
                 PROVE  /\ v = w
                        /\ tx'[v].row.id < nextId'
                        /\ \A r \in changelog : r.id < tx'[v].row.id /\ r.created <= tx'[v].row.created
                        /\ \A d \in meta : d < tx'[v].row.id
                        /\ tx'[v].row.created <= now
                        /\ now - RETENTION_MONTHS <= tx'[v].row.created
      BY DEF OpenRowIsNewest
    <3>1. v = w
      BY DEF LockHeld
    <3>2. tx'[v].row = [id |-> nextId, fp |-> tx[w].row.fp, created |-> now]
      BY <3>1
    <3> QED BY <3>1, <3>2 DEF IdsGivenOut, CalendarInv, Row
  <2>3. CalendarInv' /\ DropCovered'
    BY DEF CalendarInv, DropCovered, Oldest, RowsOf
  <2>4. MonthsFollowIds' /\ WindowKept'
    BY DEF MonthsFollowIds, WindowKept
  <2> QED BY <2>1, <2>2, <2>3, <2>4
<1>3. CASE TriggerFails(w) \/ Rollback(w)
  <2>1. /\ tx' = [tx EXCEPT ![w] = Idle]
        /\ nextId' >= nextId
        /\ UNCHANGED <<now, partitions, changelog, meta, fingerprints, nextFp, job>>
    BY <1>3 DEF TriggerFails, Rollback
  <2>2. IdsGivenOut'
    BY <2>1 DEF IdsGivenOut, Row
  <2>3. OpenRowIsNewest'
    BY <2>1 DEF OpenRowIsNewest, Idle, Row
  <2>4. CalendarInv' /\ DropCovered'
    BY <2>1 DEF CalendarInv, DropCovered, Oldest, RowsOf
  <2>5. MonthsFollowIds' /\ WindowKept'
    BY <2>1 DEF MonthsFollowIds, WindowKept
  <2> QED BY <2>2, <2>3, <2>4, <2>5
<1>4. CASE Commit(w)
  <2> USE <1>4 DEF Commit
  <2> DEFINE new == tx[w].row
  <2>1. /\ new \in Row
        /\ new.fp > 0
        /\ new.id < nextId
        /\ \A r \in changelog : r.id < new.id /\ r.created <= new.created
        /\ \A d \in meta : d < new.id
        /\ new.created <= now
        /\ now - RETENTION_MONTHS <= new.created
    BY DEF OpenRowIsNewest
  <2>2. IdsGivenOut'
    BY <2>1 DEF IdsGivenOut, Row
  <2>3. OpenRowIsNewest'
    <3>1. \A v \in Writers : tx'[v].pc # "logged"
      BY DEF OpenRowIsNewest, Idle
    <3>2. \A v \in Writers : tx'[v].pc # "idle" => tx'[v].row.fp > 0
      BY DEF OpenRowIsNewest, Idle
    <3> QED BY <3>1, <3>2 DEF OpenRowIsNewest
  <2>4. CalendarInv'
    BY <2>1 DEF CalendarInv
  <2>5. DropCovered'
    <3> SUFFICES ASSUME NEW j \in Jobs, job[j].pc = "dropping",
                        NEW m \in job[j].todo, Oldest(j, m),
                        NEW r \in changelog', r.created = m
                 PROVE  \E d \in meta : r.id <= d
      BY DEF DropCovered, Oldest, RowsOf
    <3>1. m + RETENTION_MONTHS < now
      BY DEF CalendarInv
    <3>2. r # new
      BY <2>1, <3>1 DEF Row
    <3> QED BY <3>2 DEF DropCovered, RowsOf
  <2>6. MonthsFollowIds'
    BY <2>1 DEF MonthsFollowIds, Row
  <2>7. WindowKept'
    BY <2>1 DEF WindowKept, Row
  <2> QED BY <2>2, <2>3, <2>4, <2>5, <2>6, <2>7
<1> QED BY <1>1, <1>2, <1>3, <1>4 DEF WriterStep

(* The clock: months only leave the retention window when no transaction
   that holds a row of them is open. *)
LEMMA TickInv ==
  ASSUME ChangelogInv, TypeOK', Tick
  PROVE  ChangelogInv'
<1> USE BoundsAssumption DEF ChangelogInv, TypeOK, Tick, txVars
<1>1. IdsGivenOut'
  BY DEF IdsGivenOut
<1>2. OpenRowIsNewest'
  BY DEF OpenRowIsNewest, Row
<1>3. CalendarInv'
  BY DEF CalendarInv, Row
<1>4. DropCovered'
  BY DEF DropCovered, Oldest, RowsOf
<1>5. MonthsFollowIds' /\ WindowKept'
  BY DEF MonthsFollowIds, WindowKept, Row
<1> QED BY <1>1, <1>2, <1>3, <1>4, <1>5

(* Recording the highest row of a partition covers all its rows, moves the
   watermark forward only, and to a month that has left the window. *)
LEMMA UpsertCovers ==
  ASSUME ChangelogInv, NEW m \in Nat, Upsert(m)
  PROVE  /\ \A r \in RowsOf(m) : \E d \in meta' : r.id <= d
         /\ \A d \in meta : \E e \in meta' : d <= e
         /\ \A e \in meta' : e \in meta \/ \E r \in RowsOf(m) : e = r.id
<1> USE DEF ChangelogInv, TypeOK
<1>1. CASE RowsOf(m) = {} /\ UNCHANGED meta
  BY <1>1
<1>2. ASSUME NEW r \in RowsOf(m), \A s \in RowsOf(m) : s.id <= r.id,
             meta' = IF \A d \in meta : d < r.id THEN {r.id} ELSE meta
      PROVE  /\ \A s \in RowsOf(m) : \E d \in meta' : s.id <= d
             /\ \A d \in meta : \E e \in meta' : d <= e
             /\ \A e \in meta' : e \in meta \/ \E s \in RowsOf(m) : e = s.id
  <2>1. r.id \in Nat /\ \A s \in RowsOf(m) : s.id \in Nat
    BY DEF RowsOf, Row
  <2>2. CASE \A d \in meta : d < r.id
    BY <1>2, <2>1, <2>2
  <2>3. CASE ~(\A d \in meta : d < r.id)
    <3>1. PICK d \in meta : ~(d < r.id)
      BY <2>3
    <3>2. \A s \in RowsOf(m) : s.id <= d
      BY <1>2, <2>1, <3>1
    <3> QED BY <1>2, <2>3, <3>2
  <2> QED BY <2>2, <2>3
<1> QED BY <1>1, <1>2 DEF Upsert

(* Writing the watermark: the one step that raises the floor. *)
LEMMA RecordInv ==
  ASSUME ChangelogInv, TypeOK', NEW j \in Jobs, RecordLastDeleted(j)
  PROVE  ChangelogInv'
<1> USE BoundsAssumption DEF ChangelogInv, TypeOK, txVars
<1>1. PICK m \in partitions : /\ job[j].pc = "drop"
                              /\ Oldest(j, m)
                              /\ Upsert(m)
                              /\ Goto(j, "dropping", 0, job[j].todo)
                              /\ UNCHANGED <<now, partitions, txVars>>
  BY DEF RecordLastDeleted
<1>2. /\ \A r \in RowsOf(m) : \E d \in meta' : r.id <= d
      /\ \A d \in meta : \E e \in meta' : d <= e
      /\ \A e \in meta' : e \in meta \/ \E r \in RowsOf(m) : e = r.id
  BY <1>1, UpsertCovers
<1>3. m + RETENTION_MONTHS < now
  BY <1>1 DEF Oldest, CalendarInv
<1>4. job'[j] = [pc |-> "dropping", today |-> job[j].today, offset |-> 0, todo |-> job[j].todo]
  BY <1>1 DEF Goto
<1>5. \A i \in Jobs \ {j} : job'[i] = job[i]
  BY <1>1 DEF Goto
<1>6. IdsGivenOut'
  BY <1>1, <1>2 DEF IdsGivenOut, RowsOf
<1>7. OpenRowIsNewest'
  BY <1>1, <1>2 DEF OpenRowIsNewest, RowsOf
<1>8. CalendarInv'
  BY <1>1, <1>4, <1>5 DEF CalendarInv
<1>9. MonthsFollowIds'
  BY <1>1 DEF MonthsFollowIds
<1>10. WindowKept'
  <2> SUFFICES ASSUME NEW s \in changelog, NEW e \in meta', s.id <= e
               PROVE  s.created + RETENTION_MONTHS < now
    BY <1>1 DEF WindowKept
  <2>1. CASE e \in meta
    BY <2>1 DEF WindowKept
  <2>2. ASSUME NEW r \in RowsOf(m), e = r.id
        PROVE  s.created + RETENTION_MONTHS < now
    <3>1. r \in changelog /\ r.created = m /\ r \in Row /\ s \in Row
      BY DEF RowsOf
    <3>2. s.created <= m
      BY <2>2, <3>1 DEF IdsGivenOut, MonthsFollowIds, Row
    <3> QED BY <1>3, <3>1, <3>2 DEF Row
  <2> QED BY <1>2, <2>1, <2>2
<1>11. DropCovered'
  <2> SUFFICES ASSUME NEW i \in Jobs, job'[i].pc = "dropping",
                      NEW k \in job'[i].todo, \A n \in job'[i].todo : k <= n,
                      NEW r \in changelog, r.created = k
               PROVE  \E e \in meta' : r.id <= e
    BY <1>1 DEF DropCovered, Oldest, RowsOf
  <2>1. CASE i = j
    <3>1. k = m
      BY <1>1, <1>4, <2>1 DEF Oldest
    <3> QED BY <1>2, <3>1 DEF RowsOf
  <2>2. CASE i # j
    <3>1. PICK d \in meta : r.id <= d
      BY <1>5, <2>2 DEF DropCovered, Oldest, RowsOf
    <3>2. PICK e \in meta' : d <= e
      BY <1>2, <3>1
    <3> QED BY <3>1, <3>2 DEF Row
  <2> QED BY <2>1, <2>2
<1> QED BY <1>6, <1>7, <1>8, <1>9, <1>10, <1>11

(* Dropping a partition: it takes rows away and nothing else. *)
LEMMA DropInv ==
  ASSUME ChangelogInv, TypeOK', NEW j \in Jobs, DropPartition(j)
  PROVE  ChangelogInv'
<1> USE BoundsAssumption DEF ChangelogInv, TypeOK
<1>1. PICK m \in partitions : /\ Oldest(j, m)
                              /\ changelog' = changelog \ RowsOf(m)
                              /\ Goto(j, "drop", 0, job[j].todo \ {m})
                              /\ UNCHANGED <<now, meta, fingerprints, nextFp, nextId, tx>>
  BY DEF DropPartition
<1>2. changelog' \subseteq changelog
  BY <1>1
<1>3. job'[j] = [pc |-> "drop", today |-> job[j].today, offset |-> 0, todo |-> job[j].todo \ {m}]
  BY <1>1 DEF Goto
<1>4. \A i \in Jobs \ {j} : job'[i] = job[i]
  BY <1>1 DEF Goto
<1>5. IdsGivenOut'
  BY <1>1, <1>2 DEF IdsGivenOut
<1>6. OpenRowIsNewest'
  BY <1>1, <1>2 DEF OpenRowIsNewest
<1>7. CalendarInv'
  BY <1>1, <1>2, <1>3, <1>4 DEF CalendarInv
<1>8. MonthsFollowIds' /\ WindowKept'
  BY <1>1, <1>2 DEF MonthsFollowIds, WindowKept
<1>9. DropCovered'
  BY <1>1, <1>2, <1>3, <1>4 DEF DropCovered, Oldest, RowsOf
<1> QED BY <1>5, <1>6, <1>7, <1>8, <1>9

(* Every statement of a maintenance run keeps the invariant. *)
LEMMA JobInv ==
  ASSUME ChangelogInv, TypeOK', NEW j \in Jobs, JobStep(j)
  PROVE  ChangelogInv'
<1> USE BoundsAssumption DEF ChangelogInv
<1>0. /\ job[j].todo \in SUBSET Nat
      /\ job[j].today \in Nat
      /\ partitions \subseteq Nat
      /\ \A m \in job[j].todo : m + RETENTION_MONTHS < job[j].today
  BY DEF TypeOK, CalendarInv
<1>1. CASE JobStart(j)
  <2>1. CalendarInv'
    BY <1>1 DEF JobStart, CalendarInv, TypeOK, txVars
  <2>2. DropCovered'
    BY <1>1 DEF JobStart, DropCovered, Oldest, RowsOf, TypeOK, txVars
  <2> QED BY <1>1, <2>1, <2>2, RunOnlyStep DEF JobStart
<1>2. CASE CreatePartition(j) \/ CreateFails(j)
  <2>1. NextOffset(j) /\ UNCHANGED <<now, meta, txVars>>
    BY <1>2 DEF CreatePartition, CreateFails
  <2>2. CASE job[j].offset = CREATE_AHEAD
    BY <2>1, <2>2, GotoStep DEF NextOffset
  <2>3. CASE job[j].offset # CREATE_AHEAD
    BY <2>1, <2>3, GotoStep DEF NextOffset
  <2> QED BY <2>2, <2>3
<1>3. CASE ListPartitions(j)
  <2> DEFINE old == {m \in partitions : m < Cutoff(job[j].today)}
  <2>1. Goto(j, "drop", 0, old) /\ UNCHANGED <<now, meta, txVars>>
    BY <1>3 DEF ListPartitions
  <2>2. old \in SUBSET Nat
    BY <1>0
  <2>3. ASSUME NEW m \in old PROVE m + RETENTION_MONTHS < job[j].today
    <3>1. m \in Nat /\ m < job[j].today - RETENTION_MONTHS
      BY <1>0 DEF Cutoff
    <3> QED BY <1>0, <3>1
  <2> QED BY <2>1, <2>2, <2>3, GotoStep
<1>4. CASE RecordLastDeleted(j)
  BY <1>4, RecordInv
<1>5. CASE RecordFails(j) \/ DropFails(j)
  <2>1. PICK m : Goto(j, "drop", 0, job[j].todo \ {m}) /\ UNCHANGED <<now, meta, txVars>>
    BY <1>5 DEF RecordFails, DropFails
  <2> QED BY <1>0, <2>1, GotoStep
<1>6. CASE DropPartition(j)
  BY <1>6, DropInv
<1>7. CASE JobDone(j) \/ JobCrash(j)
  <2>0. job' = [job EXCEPT ![j] = Rest] /\ UNCHANGED <<now, meta, txVars>>
    BY <1>7 DEF JobDone, JobCrash
  <2>1. CalendarInv'
    BY <2>0 DEF CalendarInv, Rest, TypeOK, txVars
  <2>2. DropCovered'
    BY <2>0 DEF DropCovered, Oldest, RowsOf, Rest, TypeOK, txVars
  <2> QED BY <2>0, <2>1, <2>2, RunOnlyStep
<1> QED BY <1>1, <1>2, <1>3, <1>4, <1>5, <1>6, <1>7 DEF JobStep

(* The invariant is inductive. *)
LEMMA InvStep == ChangelogInv /\ [Next]_vars => ChangelogInv'
<1> SUFFICES ASSUME ChangelogInv, [Next]_vars PROVE ChangelogInv'
  OBVIOUS
<1>0. TypeOK'
  BY TypeStep DEF ChangelogInv
<1>1. ASSUME NEW w \in Writers, WriterStep(w) PROVE ChangelogInv'
  BY <1>0, <1>1, WriterInv
<1>2. ASSUME NEW j \in Jobs, JobStep(j) PROVE ChangelogInv'
  BY <1>0, <1>2, JobInv
<1>3. CASE Tick
  BY <1>0, <1>3, TickInv
<1>4. CASE UNCHANGED vars
  <2>1. CalendarInv' /\ DropCovered'
    BY <1>4 DEF vars, ChangelogInv, CalendarInv, DropCovered, Oldest, RowsOf
  <2> QED BY <1>0, <1>4, <2>1, RunOnlyStep DEF vars, txVars
<1> QED BY <1>1, <1>2, <1>3, <1>4 DEF Next

(* The invariant holds in every reachable state, for any number of
   importers and maintenance workers. *)
THEOREM Invariance == Spec => []ChangelogInv
<1>1. Init => ChangelogInv
  BY InitInv
<1>2. ChangelogInv /\ [Next]_vars => ChangelogInv'
  BY InvStep
<1> QED BY <1>1, <1>2, PTL DEF Spec

(* Every variable stays in its set and fpindex_meta keeps to its one row. *)
THEOREM TypeCorrect == Spec => []TypeOK
<1>1. ChangelogInv => TypeOK
  BY DEF ChangelogInv
<1> QED BY <1>1, Invariance, PTL

(* The months of the partitions and the ids of the cursor agree. *)
THEOREM MonthsAgree == Spec => []MonthsFollowIds
<1>1. ChangelogInv => MonthsFollowIds
  BY DEF ChangelogInv
<1> QED BY <1>1, Invariance, PTL

(* The watermark never covers a row inside the retention window. *)
THEOREM WindowIsKept == Spec => []WindowKept
<1>1. ChangelogInv => WindowKept
  BY DEF ChangelogInv
<1> QED BY <1>1, Invariance, PTL

(* What one step may do to the log: only a commit adds a row, and only the
   newest one; only a drop takes rows, and only below the watermark; the
   watermark moves only forward, to a row that is there. *)
LEMMA LogStep ==
  ASSUME ChangelogInv, [Next]_vars
  PROVE  \/ UNCHANGED <<changelog, meta>>
         \/ /\ UNCHANGED meta
            /\ \E new \in Row :
                 /\ changelog' = changelog \cup {new}
                 /\ \A s \in changelog : s.id < new.id
                 /\ \A d \in meta : d < new.id
         \/ /\ UNCHANGED meta
            /\ changelog' \subseteq changelog
            /\ \A r \in changelog \ changelog' : \E d \in meta : r.id <= d
         \/ /\ UNCHANGED changelog
            /\ \E r \in changelog :
                 /\ \A d \in meta : d < r.id
                 /\ meta' = {r.id}
<1> DEFINE Goal ==
         \/ UNCHANGED <<changelog, meta>>
         \/ /\ UNCHANGED meta
            /\ \E new \in Row :
                 /\ changelog' = changelog \cup {new}
                 /\ \A s \in changelog : s.id < new.id
                 /\ \A d \in meta : d < new.id
         \/ /\ UNCHANGED meta
            /\ changelog' \subseteq changelog
            /\ \A r \in changelog \ changelog' : \E d \in meta : r.id <= d
         \/ /\ UNCHANGED changelog
            /\ \E r \in changelog :
                 /\ \A d \in meta : d < r.id
                 /\ meta' = {r.id}
<1>1. ASSUME NEW w \in Writers, WriterStep(w) PROVE Goal
  <2>1. CASE Commit(w)
    BY <2>1 DEF Commit, ChangelogInv, TypeOK, OpenRowIsNewest
  <2>2. CASE ~Commit(w)
    BY <1>1, <2>2 DEF WriterStep, InsertFingerprint, Trigger, TriggerFails, Rollback
  <2> QED BY <2>1, <2>2
<1>2. ASSUME NEW j \in Jobs, JobStep(j) PROVE Goal
  <2>1. CASE RecordLastDeleted(j)
    <3>1. PICK m \in partitions : Upsert(m) /\ UNCHANGED changelog
      BY <2>1 DEF RecordLastDeleted, txVars
    <3> QED BY <3>1 DEF Upsert, RowsOf
  <2>2. CASE DropPartition(j)
    <3>1. PICK m \in partitions : /\ job[j].pc = "dropping"
                                  /\ Oldest(j, m)
                                  /\ changelog' = changelog \ RowsOf(m)
                                  /\ UNCHANGED meta
      BY <2>2 DEF DropPartition
    <3>2. \A r \in RowsOf(m) : \E d \in meta : r.id <= d
      BY <3>1 DEF ChangelogInv, DropCovered, Oldest
    <3> QED BY <3>1, <3>2
  <2>3. CASE ~RecordLastDeleted(j) /\ ~DropPartition(j)
    BY <1>2, <2>3 DEF JobStep, JobStart, CreatePartition, CreateFails, ListPartitions,
       RecordFails, DropFails, JobDone, JobCrash, txVars
  <2> QED BY <2>1, <2>2, <2>3
<1>3. CASE Tick
  BY <1>3 DEF Tick, txVars
<1>4. CASE UNCHANGED vars
  BY <1>4 DEF vars
<1>5. Goal
  BY <1>1, <1>2, <1>3, <1>4 DEF Next
<1> QED BY <1>5

(* Rows become visible in id order, above the watermark: the advisory lock
   does what the trigger takes it for. *)
THEOREM CommitsInOrder == Spec => CommitOrder
<1>1. ChangelogInv /\ [Next]_vars =>
        [\A r \in changelog' \ changelog :
           /\ \A s \in changelog : s.id < r.id
           /\ \A d \in meta : d < r.id]_vars
  BY LogStep
<1> QED BY <1>1, Invariance, PTL DEF Spec, CommitOrder

(* No row disappears before the watermark covers it. *)
THEOREM LossIsRecorded == Spec => LossRecorded
<1>1. ChangelogInv /\ [Next]_vars =>
        [\A r \in changelog \ changelog' : \E d \in meta : r.id <= d]_vars
  BY LogStep
<1> QED BY <1>1, Invariance, PTL DEF Spec, LossRecorded

(* The watermark never moves back. *)
THEOREM WatermarkIsMonotone == Spec => WatermarkForward
<1>1. ChangelogInv /\ [Next]_vars => [\A d \in meta : \E e \in meta' : d <= e]_vars
  <2> SUFFICES ASSUME ChangelogInv, [Next]_vars, NEW d \in meta
               PROVE  \E e \in meta' : d <= e
    OBVIOUS
  <2>1. d \in Nat /\ \A r \in changelog : r.id \in Nat
    BY DEF ChangelogInv, TypeOK, Row
  <2> QED BY <2>1, LogStep
<1> QED BY <1>1, Invariance, PTL DEF Spec, WatermarkForward

(* Transactions, partitions and maintenance runs implement the log of
   module CommitLog. *)
THEOREM Refinement == Spec => ImplementsLog
<1>1. Init => Log!LogInit
  BY DEF Init, Log!LogInit
<1>2. ChangelogInv /\ [Next]_vars => [Log!LogNext]_Log!logVars
  <2> SUFFICES ASSUME ChangelogInv, [Next]_vars
               PROVE  Log!LogNext \/ UNCHANGED <<{r.id : r \in changelog}, meta>>
    BY DEF Log!logVars
  <2>0. \A r, s \in changelog : r.id = s.id => r = s
    BY DEF ChangelogInv, IdsGivenOut
  <2>1. CASE UNCHANGED <<changelog, meta>>
    BY <2>1
  <2>2. ASSUME UNCHANGED meta, NEW new \in Row,
               changelog' = changelog \cup {new},
               \A s \in changelog : s.id < new.id,
               \A d \in meta : d < new.id
        PROVE  Log!Append
    BY <2>2 DEF Log!Append
  <2>3. ASSUME UNCHANGED meta, changelog' \subseteq changelog,
               \A r \in changelog \ changelog' : \E d \in meta : r.id <= d
        PROVE  Log!Forget
    BY <2>0, <2>3 DEF Log!Forget
  <2>4. ASSUME UNCHANGED changelog, NEW r \in changelog,
               \A d \in meta : d < r.id, meta' = {r.id}
        PROVE  Log!RaiseFloor
    BY <2>4 DEF Log!RaiseFloor
  <2> QED BY <2>1, <2>2, <2>3, <2>4, LogStep DEF Log!LogNext
<1> QED BY <1>1, <1>2, Invariance, PTL DEF Spec, ImplementsLog, Log!LogSpec

-----------------------------------------------------------------------------
(* Feed *)

(* A node that has nothing is complete in the sense of Complete. *)
LEMMA FeedInitInv == FeedInit => FeedInv
<1> SUFFICES ASSUME FeedInit PROVE FeedInv
  OBVIOUS
<1>1. ChangelogInv
  BY InitInv DEF FeedInit
<1>2. FeedTypeOK
  BY DEF FeedInit, FeedTypeOK, Modes
<1>3. CursorBelowOpen
  BY DEF FeedInit, Init, CursorBelowOpen, Idle
<1>4. NoSilentLoss
  BY DEF FeedInit, NoSilentLoss, Complete
<1> QED BY <1>1, <1>2, <1>3, <1>4 DEF FeedInv

(* Feed steps leave the changelog alone, changelog steps the nodes: either
   way the changelog keeps its invariant. *)
LEMMA FeedChangelogInv == ChangelogInv /\ [FeedNext]_allVars => ChangelogInv'
<1> SUFFICES ASSUME ChangelogInv, [FeedNext]_allVars PROVE ChangelogInv'
  OBVIOUS
<1>1. [Next]_vars
  <2>1. ASSUME NEW n \in Nodes, NodeStep(n) PROVE UNCHANGED vars
    BY <2>1 DEF NodeStep, CheckFloor, ReadBatch, ReadLost, BootstrapStart,
       BootstrapChunk, BootstrapEnd, BootstrapAborted, PeerSnapshot
  <2> QED BY <2>1 DEF FeedNext, allVars
<1> QED BY <1>1, InvStep

(* Node steps keep the types. *)
LEMMA FeedTypeStep ==
  ASSUME ChangelogInv, FeedTypeOK, NEW n \in Nodes, NodeStep(n)
  PROVE  FeedTypeOK'
<1> USE DEF FeedTypeOK, Modes
<1>0. changelog \subseteq Row /\ fingerprints \subseteq Nat
  BY DEF ChangelogInv, TypeOK
<1>1. CASE CheckFloor(n)
  BY <1>1 DEF CheckFloor
<1>2. CASE ReadBatch(n)
  <2>1. PICK batch \in SUBSET {r \in changelog : r.id > cursor[n]} :
          /\ \/ batch = {} /\ UNCHANGED <<cursor, index, torn>>
             \/ \E last \in batch :
                  /\ cursor' = [cursor EXCEPT ![n] = last.id]
                  /\ index' = [index EXCEPT ![n] = index[n] \cup {r.fp : r \in batch}]
                  /\ torn' = IF BelowFloor(cursor[n]) THEN torn \cup {n} ELSE torn
          /\ mode' = [mode EXCEPT ![n] = "tail"]
          /\ UNCHANGED lastId
    BY <1>2 DEF ReadBatch
  <2>2. \A r \in batch : r.id \in Nat /\ r.fp \in Nat
    BY <1>0, <2>1 DEF Row
  <2>3. index[n] \cup {r.fp : r \in batch} \in SUBSET Nat
    BY <2>2
  <2> QED BY <2>1, <2>2, <2>3
<1>3. CASE ReadLost(n)
  BY <1>3 DEF ReadLost
<1>4. CASE BootstrapStart(n)
  <2>1. \A p \in {0} \cup {r.id : r \in changelog} : p \in Nat
    BY <1>0 DEF Row
  <2> QED BY <1>4, <2>1 DEF BootstrapStart
<1>5. CASE BootstrapChunk(n)
  BY <1>0, <1>5 DEF BootstrapChunk, Unscanned
<1>6. CASE BootstrapEnd(n)
  BY <1>6 DEF BootstrapEnd
<1>7. CASE BootstrapAborted(n)
  BY <1>7 DEF BootstrapAborted
<1>8. ASSUME NEW peer \in Nodes, PeerSnapshot(n, peer) PROVE FeedTypeOK'
  BY <1>8 DEF PeerSnapshot
<1> QED BY <1>1, <1>2, <1>3, <1>4, <1>5, <1>6, <1>7, <1>8 DEF NodeStep

(* Node steps only move a cursor to a committed row, to a peer's position or
   to 0: it stays below every open row. *)
LEMMA CursorStep ==
  ASSUME FeedInv, NEW n \in Nodes, NodeStep(n)
  PROVE  CursorBelowOpen'
<1> USE DEF FeedInv, FeedTypeOK, CursorBelowOpen
<1>0. \A r \in changelog : /\ r.id < nextId
                           /\ \A w \in Writers : tx[w].pc = "logged" => r.id < tx[w].row.id
  BY DEF ChangelogInv, IdsGivenOut, OpenRowIsNewest
<1>00. /\ 0 < nextId
       /\ \A w \in Writers : tx[w].pc = "logged" => 0 < tx[w].row.id
       /\ \A w \in Writers : tx[w].row.id \in Nat
       /\ nextId \in Nat
  BY DEF ChangelogInv, TypeOK, Row
<1>1. CASE UNCHANGED <<vars, cursor>>
  BY <1>1 DEF vars
<1>2. ASSUME UNCHANGED vars,
             NEW p, cursor' = [cursor EXCEPT ![n] = p],
             p < nextId, \A w \in Writers : tx[w].pc = "logged" => p < tx[w].row.id
      PROVE  CursorBelowOpen'
  BY <1>2 DEF vars
<1>3. CASE CheckFloor(n) \/ ReadLost(n) \/ BootstrapChunk(n) \/ BootstrapEnd(n)
  BY <1>1, <1>3 DEF CheckFloor, ReadLost, BootstrapChunk, BootstrapEnd
<1>4. CASE ReadBatch(n)
  <2>1. UNCHANGED vars
    BY <1>4 DEF ReadBatch
  <2>2. \/ UNCHANGED cursor
        \/ \E last \in changelog : cursor' = [cursor EXCEPT ![n] = last.id]
    BY <1>4 DEF ReadBatch
  <2>3. QED BY <1>0, <1>1, <1>2, <2>1, <2>2
<1>5. CASE BootstrapStart(n)
  <2>1. PICK p \in {0} \cup {r.id : r \in changelog} : cursor' = [cursor EXCEPT ![n] = p]
    BY <1>5 DEF BootstrapStart
  <2>2. UNCHANGED vars
    BY <1>5 DEF BootstrapStart
  <2>3. p < nextId /\ \A w \in Writers : tx[w].pc = "logged" => p < tx[w].row.id
    BY <1>0, <1>00
  <2>4. QED BY <1>2, <2>1, <2>2, <2>3
<1>6. CASE BootstrapAborted(n)
  BY <1>00, <1>2, <1>6 DEF BootstrapAborted
<1>7. ASSUME NEW peer \in Nodes, PeerSnapshot(n, peer) PROVE CursorBelowOpen'
  BY <1>2, <1>7 DEF PeerSnapshot
<1> QED BY <1>3, <1>4, <1>5, <1>6, <1>7 DEF NodeStep

(* A node step changes what is said of no other node. *)
LEMMA OthersComplete ==
  ASSUME FeedTypeOK, NEW n \in Nodes, NEW i \in Nodes, i # n, UNCHANGED vars, Complete(i),
         mode'[i] = mode[i], cursor'[i] = cursor[i], index'[i] = index[i],
         lastId'[i] = lastId[i]
  PROVE  Complete(i)'
BY DEF Complete, Ahead, BelowFloor, vars

(* The heart of the feed: a batch is a prefix of what is ahead of the
   cursor, so whatever the node still lacks is behind the prefix; and a
   bootstrap that has scanned up to lastId lacks only what is above it, or
   what committed since and is therefore above the header's position. *)
LEMMA NodeLoss ==
  ASSUME FeedInv, NEW n \in Nodes, NodeStep(n)
  PROVE  NoSilentLoss'
<1> USE DEF FeedInv, FeedTypeOK, NoSilentLoss
<1>0. /\ UNCHANGED vars
      /\ torn' \subseteq torn \cup {n}
      /\ torn \subseteq torn' \cup {n}
      /\ \A i \in Nodes \ {n} : /\ mode'[i] = mode[i]
                                /\ cursor'[i] = cursor[i]
                                /\ index'[i] = index[i]
                                /\ lastId'[i] = lastId[i]
  BY DEF NodeStep, CheckFloor, ReadBatch, ReadLost, BootstrapStart,
     BootstrapChunk, BootstrapEnd, BootstrapAborted, PeerSnapshot
<1>1. \A i \in Nodes \ {n} : i \notin torn' => Complete(i)'
  BY <1>0, OthersComplete
<1>2. /\ changelog \subseteq Row
      /\ fingerprints \subseteq Nat
      /\ meta \subseteq Nat
      /\ \A f \in fingerprints : f > 0
  BY DEF ChangelogInv, TypeOK, IdsGivenOut
<1>3. ASSUME n \notin torn' PROVE Complete(n)'
  <2>1. CASE CheckFloor(n) \/ ReadLost(n)
    <3>1. /\ UNCHANGED <<vars, cursor, index, lastId, torn>>
          /\ mode[n] \in {"tail", "read"}
          /\ mode'[n] # "scan"
      BY <2>1 DEF CheckFloor, ReadLost
    <3> QED BY <1>3, <3>1 DEF Complete, Ahead, BelowFloor, vars
  <2>2. CASE ReadBatch(n)
    <3> DEFINE rows == {r \in changelog : r.id > cursor[n]}
    <3>1. PICK batch \in SUBSET rows :
            /\ mode[n] = "read"
            /\ FirstOf(batch, rows, Limit, RowId)
            /\ \/ batch = {} /\ UNCHANGED <<cursor, index, torn>>
               \/ \E last \in batch :
                    /\ \A r \in batch : r.id <= last.id
                    /\ cursor' = [cursor EXCEPT ![n] = last.id]
                    /\ index' = [index EXCEPT ![n] = index[n] \cup {r.fp : r \in batch}]
                    /\ torn' = IF BelowFloor(cursor[n]) THEN torn \cup {n} ELSE torn
            /\ mode' = [mode EXCEPT ![n] = "tail"]
            /\ UNCHANGED <<vars, lastId>>
      BY <2>2 DEF ReadBatch
    <3>2. CASE batch = {} /\ UNCHANGED <<cursor, index, torn>>
      BY <1>3, <3>1, <3>2 DEF Complete, Ahead, BelowFloor, vars
    <3>3. ASSUME NEW last \in batch,
                 cursor' = [cursor EXCEPT ![n] = last.id],
                 index' = [index EXCEPT ![n] = index[n] \cup {r.fp : r \in batch}],
                 torn' = IF BelowFloor(cursor[n]) THEN torn \cup {n} ELSE torn
          PROVE  Complete(n)'
      <4>1. ~BelowFloor(cursor[n]) /\ n \notin torn
        BY <1>3, <3>3
      <4>2. \A r \in rows \ batch : last.id < r.id
        BY <3>1 DEF FirstOf, RowId
      <4> SUFFICES ASSUME NEW f \in fingerprints, f \notin index'[n], f \notin Silent
                   PROVE  \E r \in changelog : r.fp = f /\ r.id > last.id
        BY <3>1, <3>3 DEF Complete, Ahead, vars
      <4>3. f \notin index[n] /\ \A r \in batch : r.fp # f
        BY <3>3
      <4>4. PICK r \in changelog : r.fp = f /\ r.id > cursor[n]
        BY <3>1, <4>1, <4>3 DEF Complete, Ahead
      <4> QED BY <1>2, <4>2, <4>3, <4>4 DEF Row
    <3> QED BY <3>1, <3>2, <3>3
  <2>3. CASE BootstrapStart(n)
    <3>1. mode'[n] = "scan" /\ lastId'[n] = 0 /\ UNCHANGED vars
      BY <2>3 DEF BootstrapStart
    <3> QED BY <1>2, <3>1 DEF Complete, Ahead, vars
  <2>4. CASE BootstrapChunk(n)
    <3>0. PICK rows \in SUBSET Unscanned(n) : \E last \in rows :
            /\ mode[n] = "scan"
            /\ FirstOf(rows, Unscanned(n), Chunk, Id)
            /\ index' = [index EXCEPT ![n] = index[n] \cup (rows \ Silent)]
            /\ lastId' = [lastId EXCEPT ![n] = last]
            /\ UNCHANGED <<vars, mode, cursor, torn>>
      BY <2>4 DEF BootstrapChunk
    <3>1. PICK last \in rows :
            /\ mode[n] = "scan"
            /\ FirstOf(rows, Unscanned(n), Chunk, Id)
            /\ index' = [index EXCEPT ![n] = index[n] \cup (rows \ Silent)]
            /\ lastId' = [lastId EXCEPT ![n] = last]
            /\ UNCHANGED <<vars, mode, cursor, torn>>
      BY <3>0
    <3> SUFFICES ASSUME NEW f \in fingerprints, f \notin index'[n], f \notin Silent
                 PROVE  Ahead(n, f)'
      BY <3>1 DEF Complete, vars
    <3>2. f \notin index[n] /\ f \notin rows
      BY <3>1
    <3>3. CASE f > lastId[n]
      <4>1. last < f
        BY <3>1, <3>2, <3>3 DEF FirstOf, Id, Unscanned
      <4> QED BY <1>2, <3>1, <4>1 DEF Ahead
    <3>4. CASE ~(f > lastId[n])
      <4>1. Ahead(n, f)
        BY <1>3, <3>1, <3>2 DEF Complete
      <4> QED BY <3>1, <3>4, <4>1 DEF Ahead, BelowFloor, vars
    <3> QED BY <3>3, <3>4
  <2>5. CASE BootstrapEnd(n)
    <3>1. /\ mode[n] = "scan" /\ mode'[n] = "tail"
          /\ \A f \in fingerprints : ~(f > lastId[n])
          /\ UNCHANGED <<vars, cursor, index, torn>>
      BY <2>5 DEF BootstrapEnd, Unscanned
    <3> QED BY <1>3, <3>1 DEF Complete, Ahead, BelowFloor, vars
  <2>6. CASE BootstrapAborted(n)
    BY <2>6 DEF BootstrapAborted, Complete
  <2>7. ASSUME NEW peer \in Nodes, PeerSnapshot(n, peer) PROVE Complete(n)'
    <3>1. /\ peer \notin torn /\ mode[peer] \in {"tail", "read"}
          /\ cursor'[n] = cursor[peer] /\ index'[n] = index[peer] /\ mode'[n] = "tail"
          /\ UNCHANGED vars
      BY <1>3, <2>7 DEF PeerSnapshot
    <3> QED BY <3>1 DEF Complete, Ahead, BelowFloor, vars
  <2> QED BY <2>1, <2>2, <2>3, <2>4, <2>5, <2>6, <2>7 DEF NodeStep
<1> QED BY <1>1, <1>3

(* Changelog steps: a commit is ahead of every cursor, and a row that goes
   leaves a floor above every cursor that had not passed it. *)
LEMMA ChangelogLoss ==
  ASSUME FeedInv, [Next]_vars, UNCHANGED feedVars
  PROVE  CursorBelowOpen' /\ NoSilentLoss'
<1> USE DEF FeedInv, FeedTypeOK, feedVars
<1>0. /\ TypeOK /\ TypeOK'
      /\ ChangelogInv
  BY TypeStep DEF ChangelogInv
<1>1. CursorBelowOpen'
  <2>1. ASSUME NEW w \in Writers, WriterStep(w) PROVE CursorBelowOpen'
    <3>1. /\ nextId \in Nat /\ nextId' \in {nextId, nextId + 1}
          /\ \A v \in Writers : tx'[v].pc = "logged" =>
               \/ tx[v].pc = "logged" /\ tx'[v].row.id = tx[v].row.id
               \/ tx'[v].row.id = nextId
      BY <1>0, <2>1 DEF TypeOK, WriterStep, InsertFingerprint, Trigger,
         TriggerFails, Commit, Rollback, Idle, Row
    <3>2. cursor' = cursor /\ cursor \in [Nodes -> Int]
      BY DEF CursorBelowOpen
    <3> QED BY <3>1, <3>2 DEF CursorBelowOpen
  <2>2. CASE UNCHANGED <<nextId, tx>>
    BY <2>2 DEF CursorBelowOpen
  <2>3. ASSUME NEW j \in Jobs, JobStep(j) PROVE UNCHANGED <<nextId, tx>>
    BY <2>3 DEF JobStep, JobStart, CreatePartition, CreateFails, ListPartitions,
       RecordLastDeleted, RecordFails, DropPartition, DropFails, JobDone, JobCrash, txVars
  <2> QED BY <2>1, <2>2, <2>3 DEF Next, Tick, txVars, vars
<1>2. fingerprints' # fingerprints =>
        \E w \in Writers : /\ tx[w].pc = "logged"
                           /\ changelog' = changelog \cup {tx[w].row}
                           /\ fingerprints' = fingerprints \cup {tx[w].row.fp}
  BY DEF Next, WriterStep, InsertFingerprint, Trigger, TriggerFails, Commit, Rollback,
     JobStep, JobStart, CreatePartition, CreateFails, ListPartitions, RecordLastDeleted,
     RecordFails, DropPartition, DropFails, JobDone, JobCrash, Tick, txVars, vars
<1>3. ASSUME NEW n \in Nodes \ torn, mode[n] # "empty",
             NEW f \in fingerprints', f \notin index[n], f \notin Silent
      PROVE  Ahead(n, f)'
  <2>1. CASE f \notin fingerprints
    <3>1. PICK w \in Writers : /\ tx[w].pc = "logged"
                               /\ tx[w].row \in changelog'
                               /\ tx[w].row.fp = f
      BY <1>2, <2>1
    <3>2. cursor[n] < tx[w].row.id
      BY <3>1 DEF CursorBelowOpen
    <3> QED BY <1>0, <3>1, <3>2 DEF Ahead, TypeOK, Row
  <2>2. CASE f \in fingerprints
    <3>1. Ahead(n, f)
      BY <1>3, <2>2 DEF NoSilentLoss, Complete
    <3>2. CASE mode[n] = "scan" /\ f > lastId[n]
      BY <3>2 DEF Ahead
    <3>3. CASE BelowFloor(cursor[n])
      <4>1. PICK d \in meta : cursor[n] < d
        BY <3>3 DEF BelowFloor
      <4>2. \E e \in meta' : d <= e
        BY <1>0, LogStep DEF TypeOK, Row
      <4> QED BY <1>0, <4>1, <4>2 DEF Ahead, BelowFloor, TypeOK
    <3>4. ASSUME NEW r \in changelog, r.fp = f, r.id > cursor[n]
          PROVE  Ahead(n, f)'
      <4>1. CASE r \in changelog'
        BY <3>4, <4>1 DEF Ahead
      <4>2. CASE r \notin changelog'
        <5>1. UNCHANGED meta /\ \E d \in meta : r.id <= d
          BY <1>0, <4>2, LogStep
        <5> QED BY <1>0, <3>4, <5>1 DEF Ahead, BelowFloor, TypeOK, Row
      <4> QED BY <4>1, <4>2
    <3> QED BY <3>1, <3>2, <3>3, <3>4 DEF Ahead
  <2> QED BY <2>1, <2>2
<1>4. NoSilentLoss'
  BY <1>3 DEF NoSilentLoss, Complete
<1> QED BY <1>1, <1>4

(* The feed's invariant is inductive. *)
LEMMA FeedInvStep == FeedInv /\ [FeedNext]_allVars => FeedInv'
<1> SUFFICES ASSUME FeedInv, [FeedNext]_allVars PROVE FeedInv'
  OBVIOUS
<1>0. ChangelogInv'
  BY FeedChangelogInv DEF FeedInv
<1>1. ASSUME NEW n \in Nodes, NodeStep(n) PROVE FeedInv'
  BY <1>0, <1>1, FeedTypeStep, CursorStep, NodeLoss DEF FeedInv
<1>2. CASE [Next]_vars /\ UNCHANGED feedVars
  <2>1. FeedTypeOK'
    BY <1>2 DEF FeedInv, FeedTypeOK, feedVars
  <2> QED BY <1>0, <1>2, <2>1, ChangelogLoss DEF FeedInv
<1> QED BY <1>1, <1>2 DEF FeedNext, allVars

(* Whatever the interleaving of importers, retention, requests, scans, lost
   responses and snapshots. *)
THEOREM FeedInvariance == FeedSpec => []FeedInv
<1>1. FeedInit => FeedInv
  BY FeedInitInv
<1>2. FeedInv /\ [FeedNext]_allVars => FeedInv'
  BY FeedInvStep
<1> QED BY <1>1, <1>2, PTL DEF FeedSpec

(* No fingerprint is lost to a node in silence, except through the one race
   the history variable torn records: what a node lacks is in the part of
   the table it has yet to scan, in the log ahead of it, or below a floor
   that answers 410. *)
THEOREM NothingLostSilently == FeedSpec => []NoSilentLoss
<1>1. FeedInv => NoSilentLoss
  BY DEF FeedInv
<1> QED BY <1>1, FeedInvariance, PTL

(* Following the feed never moves a node back. *)
THEOREM CursorsMoveForward == FeedSpec => CursorForward
<1>1. FeedInv /\ [FeedNext]_allVars =>
        [\A n \in Nodes : mode[n] \in {"tail", "read"} =>
           cursor[n] <= cursor'[n] /\ index[n] \subseteq index'[n]]_allVars
  <2> SUFFICES ASSUME FeedInv, [FeedNext]_allVars, NEW n \in Nodes,
                      mode[n] \in {"tail", "read"}
               PROVE  cursor[n] <= cursor'[n] /\ index[n] \subseteq index'[n]
    OBVIOUS
  <2> USE DEF FeedInv, FeedTypeOK
  <2>0. changelog \subseteq Row /\ cursor[n] \in Nat
    BY DEF ChangelogInv, TypeOK
  <2>1. ASSUME NEW i \in Nodes, NodeStep(i), i # n
        PROVE  cursor'[n] = cursor[n] /\ index'[n] = index[n]
    BY <2>1 DEF NodeStep, CheckFloor, ReadBatch, ReadLost, BootstrapStart,
       BootstrapChunk, BootstrapEnd, BootstrapAborted, PeerSnapshot
  <2>2. CASE UNCHANGED <<cursor, index>>
    BY <2>0, <2>2
  <2>3. CASE ReadBatch(n)
    <3>1. CASE UNCHANGED <<cursor, index>>
      BY <2>2, <3>1
    <3>2. ASSUME NEW batch \in SUBSET {r \in changelog : r.id > cursor[n]},
                 NEW last \in batch,
                 cursor' = [cursor EXCEPT ![n] = last.id],
                 index' = [index EXCEPT ![n] = index[n] \cup {r.fp : r \in batch}]
          PROVE  cursor[n] <= cursor'[n] /\ index[n] \subseteq index'[n]
      <4>1. last.id > cursor[n] /\ last.id \in Nat
        BY <2>0, <3>2 DEF Row
      <4> QED BY <2>0, <3>2, <4>1
    <3> QED BY <2>3, <3>1, <3>2 DEF ReadBatch
  <2>4. CASE NodeStep(n) /\ ~ReadBatch(n)
    BY <2>2, <2>4 DEF NodeStep, CheckFloor, ReadLost, BootstrapStart,
       BootstrapChunk, BootstrapEnd, BootstrapAborted, PeerSnapshot
  <2> QED BY <2>0, <2>1, <2>2, <2>3, <2>4 DEF FeedNext, feedVars, allVars
<1> QED BY <1>1, FeedInvariance, PTL DEF FeedSpec, CursorForward
=============================================================================
