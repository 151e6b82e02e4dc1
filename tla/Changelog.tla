----------------------------- MODULE Changelog -----------------------------
(***************************************************************************)
(* The fpindex changelog: importer transactions that insert a fingerprint  *)
(* and, through the trigger fpindex_changelog_insert, a changelog row; the *)
(* monthly partitions; and the hourly maintenance job that creates         *)
(* partitions ahead and drops them behind, recording what it drops in      *)
(* fpindex_meta.                                                           *)
(*                                                                         *)
(* One action is one SQL statement or one commit: that is the granularity  *)
(* at which the sessions of the fingerprint database interleave.  A month  *)
(* is its index year * 12 + month - 1, as in fpindex_changelog_add_months. *)
(***************************************************************************)
EXTENDS Integers

CONSTANTS
  Writers,           \* importer sessions of the fingerprint database
  Jobs,              \* workers that may run manage_fpindex_changelog
  RETENTION_MONTHS,  \* whole months kept behind the current one
  CREATE_AHEAD,      \* FPINDEX_CHANGELOG_CREATE_AHEAD_MONTHS
  LegacyFp,          \* fingerprints 1..LegacyFp predate the trigger
  MaxFp,             \* bound: highest fingerprint id ever allocated
  MaxMonth           \* bound: the last month the clock reaches

ASSUME BoundsAssumption ==
  /\ RETENTION_MONTHS \in Nat
  /\ CREATE_AHEAD \in Nat
  /\ LegacyFp \in Nat
  /\ MaxFp \in Nat
  /\ MaxMonth \in Nat

VARIABLES
  now,           \* the month of the database server's clock
  partitions,    \* months that have a partition
  changelog,     \* committed rows of fpindex_changelog
  meta,          \* fpindex_meta: {} or the singleton {last_deleted_id}
  fingerprints,  \* ids of the committed rows of table fingerprint
  nextFp,        \* next value of the fingerprint id sequence
  nextId,        \* next value of fpindex_changelog_id_seq
  tx,            \* the open transaction of each writer
  job            \* the maintenance run of each worker

vars == <<now, partitions, changelog, meta, fingerprints, nextFp, nextId, tx, job>>

txVars == <<changelog, fingerprints, nextFp, nextId, tx>>

Row == [id : Nat, fp : Nat, created : Nat]

Idle == [pc |-> "idle", row |-> [id |-> 0, fp |-> 0, created |-> 0]]

Rest == [pc |-> "idle", today |-> 0, offset |-> 0, todo |-> {}]

(***************************************************************************)
(* A writer that has inserted its changelog row holds the advisory lock,   *)
(* and a lock on the partitioned table, until its transaction ends.        *)
(***************************************************************************)
LockHeld == \E w \in Writers : tx[w].pc = "logged"

Init ==
  /\ now = 0
  /\ partitions = 0 .. CREATE_AHEAD
  /\ changelog = {}
  /\ meta = {}
  /\ fingerprints = 1 .. LegacyFp
  /\ nextFp = LegacyFp + 1
  /\ nextId = 1
  /\ tx = [w \in Writers |-> Idle]
  /\ job = [j \in Jobs |-> Rest]

-----------------------------------------------------------------------------
(* Importer transactions *)

(* INSERT INTO fingerprint takes the fingerprint id and fires the trigger,
   which queues for the advisory lock: until it has it, another transaction
   with a higher fingerprint id may overtake this one. *)
InsertFingerprint(w) ==
  /\ tx[w].pc = "idle"
  /\ nextFp <= MaxFp
  /\ tx' = [tx EXCEPT ![w] = [pc |-> "trigger",
                              row |-> [id |-> 0, fp |-> nextFp, created |-> 0]]]
  /\ nextFp' = nextFp + 1
  /\ UNCHANGED <<now, partitions, changelog, meta, fingerprints, nextId, job>>

(* Without the advisory lock two transactions hold ids at the same time. *)
TriggerWithoutLock(w) ==
  /\ tx[w].pc = "trigger"
  /\ now \in partitions
  /\ tx' = [tx EXCEPT ![w] = [pc |-> "logged",
                              row |-> [id |-> nextId, fp |-> tx[w].row.fp,
                                       created |-> now]]]
  /\ nextId' = nextId + 1
  /\ UNCHANGED <<now, partitions, changelog, meta, fingerprints, nextFp, job>>

(* now() instead of clock_timestamp(): the month the transaction began in. *)
TriggerAtStartTime(w) ==
  /\ tx[w].pc = "trigger"
  /\ ~LockHeld
  /\ now \in partitions
  /\ \E began \in partitions :
       /\ began <= now
       /\ tx' = [tx EXCEPT ![w] = [pc |-> "logged",
                                   row |-> [id |-> nextId, fp |-> tx[w].row.fp,
                                            created |-> began]]]
  /\ nextId' = nextId + 1
  /\ UNCHANGED <<now, partitions, changelog, meta, fingerprints, nextFp, job>>

(* The advisory lock is granted; then the defaults of the changelog row are
   evaluated under it: nextval() for the id, clock_timestamp() for the month. *)
Trigger(w) ==
  /\ tx[w].pc = "trigger"
  /\ ~LockHeld
  /\ now \in partitions
  /\ tx' = [tx EXCEPT ![w] = [pc |-> "logged",
                              row |-> [id |-> nextId, fp |-> tx[w].row.fp,
                                       created |-> now]]]
  /\ nextId' = nextId + 1
  /\ UNCHANGED <<now, partitions, changelog, meta, fingerprints, nextFp, job>>

(* No partition covers the month: the INSERT fails and the importer's
   transaction with it.  The id is consumed, the submission stays pending. *)
TriggerFails(w) ==
  /\ tx[w].pc = "trigger"
  /\ ~LockHeld
  /\ now \notin partitions
  /\ tx' = [tx EXCEPT ![w] = Idle]
  /\ nextId' = nextId + 1
  /\ UNCHANGED <<now, partitions, changelog, meta, fingerprints, nextFp, job>>

Commit(w) ==
  /\ tx[w].pc = "logged"
  /\ changelog' = changelog \cup {tx[w].row}
  /\ fingerprints' = fingerprints \cup {tx[w].row.fp}
  /\ tx' = [tx EXCEPT ![w] = Idle]
  /\ UNCHANGED <<now, partitions, meta, nextFp, nextId, job>>

(* A later statement of the importer fails, a statement times out, or the
   importer dies.  Both sequences keep the values they gave out. *)
Rollback(w) ==
  /\ tx[w].pc \in {"trigger", "logged"}
  /\ tx' = [tx EXCEPT ![w] = Idle]
  /\ UNCHANGED <<now, partitions, changelog, meta, fingerprints, nextFp, nextId, job>>

-----------------------------------------------------------------------------
(* The calendar.  The importer bounds every statement of its transaction to
   60 s, so a transaction that holds a changelog row never lives to see the
   row's month leave the retention window. *)
Tick ==
  /\ now < MaxMonth
  /\ \A w \in Writers : tx[w].pc = "logged" =>
       tx[w].row.created >= now + 1 - RETENTION_MONTHS
  /\ now' = now + 1
  /\ UNCHANGED <<partitions, meta, job, txVars>>

-----------------------------------------------------------------------------
(* The maintenance job: run_manage_fpindex_changelog *)

(* SELECT current_date: one calendar for the whole run, however long. *)
JobStart(j) ==
  /\ job[j].pc = "idle"
  /\ job' = [job EXCEPT ![j] = [pc |-> "create", today |-> now, offset |-> 0, todo |-> {}]]
  /\ UNCHANGED <<now, partitions, meta, txVars>>

(* The run goes on, by the calendar it started with. *)
Goto(j, pc, offset, todo) ==
  job' = [job EXCEPT ![j] = [pc |-> pc, today |-> job[j].today,
                             offset |-> offset, todo |-> todo]]

(* The loop of create_partitions moves on, whether or not the month's
   partition could be created. *)
NextOffset(j) ==
  IF job[j].offset = CREATE_AHEAD
  THEN Goto(j, "list", 0, {})
  ELSE Goto(j, "create", job[j].offset + 1, {})

(* The runway counted from next month: nothing mends the current one. *)
CreateFromNextMonth(j) ==
  LET month == job[j].today + job[j].offset + 1 IN
  /\ job[j].pc = "create"
  /\ month \in partitions \/ ~LockHeld
  /\ partitions' = partitions \cup {month}
  /\ NextOffset(j)
  /\ UNCHANGED <<now, meta, txVars>>

(* A partition that is missing needs ACCESS EXCLUSIVE on the parent, which
   an open writer denies; CREATE TABLE IF NOT EXISTS of one that is there
   returns before it locks. *)
CreatePartition(j) ==
  LET month == job[j].today + job[j].offset IN
  /\ job[j].pc = "create"
  /\ month \in partitions \/ ~LockHeld
  /\ partitions' = partitions \cup {month}
  /\ NextOffset(j)
  /\ UNCHANGED <<now, meta, txVars>>

CreateFails(j) ==
  /\ job[j].pc = "create"
  /\ job[j].today + job[j].offset \notin partitions
  /\ NextOffset(j)
  /\ UNCHANGED <<now, partitions, meta, txVars>>

(* Counting the cutoff from a month later drops one month too many. *)
CutoffOffByOne(today) == today + 1 - RETENTION_MONTHS

Cutoff(today) == today - RETENTION_MONTHS

(* drop_partitions reads the partitions once, before it drops any. *)
ListPartitions(j) ==
  /\ job[j].pc = "list"
  /\ Goto(j, "drop", 0, {m \in partitions : m < Cutoff(job[j].today)})
  /\ UNCHANGED <<now, partitions, meta, txVars>>

(* The months are visited oldest first. *)
Oldest(j, m) == m \in job[j].todo /\ \A n \in job[j].todo : m <= n

RowsOf(m) == {r \in changelog : r.created = m}

(* The upsert without its WHERE clause: the last partition visited wins. *)
UpsertUnguarded(m) ==
  \/ RowsOf(m) = {} /\ UNCHANGED meta
  \/ \E r \in RowsOf(m) :
       /\ \A s \in RowsOf(m) : s.id <= r.id
       /\ meta' = {r.id}

(* A plain INSERT, as if the table had no one-row primary key. *)
UpsertSecondRow(m) ==
  \/ RowsOf(m) = {} /\ UNCHANGED meta
  \/ \E r \in RowsOf(m) :
       /\ \A s \in RowsOf(m) : s.id <= r.id
       /\ meta' = meta \cup {r.id}

(* INSERT INTO fpindex_meta SELECT the highest row of the partition, or
   nothing if it is empty, ON CONFLICT DO UPDATE only forward. *)
Upsert(m) ==
  \/ RowsOf(m) = {} /\ UNCHANGED meta
  \/ \E r \in RowsOf(m) :
       /\ \A s \in RowsOf(m) : s.id <= r.id
       /\ meta' = IF \A d \in meta : d < r.id THEN {r.id} ELSE meta

(* Losing the watermark of a partition that is dropped all the same. *)
RecordNothing(j) ==
  \E m \in partitions :
    /\ job[j].pc = "drop"
    /\ Oldest(j, m)
    /\ Goto(j, "dropping", 0, job[j].todo)
    /\ UNCHANGED <<now, partitions, meta, txVars>>

(* _record_last_deleted, committed on its own, before the drop. *)
RecordLastDeleted(j) ==
  \E m \in partitions :
    /\ job[j].pc = "drop"
    /\ Oldest(j, m)
    /\ Upsert(m)
    /\ Goto(j, "dropping", 0, job[j].todo)
    /\ UNCHANGED <<now, partitions, txVars>>

(* The watermark could not be written (or another worker dropped the
   partition since): the partition is left for the next run. *)
RecordFails(j) ==
  \E m \in job[j].todo :
    /\ job[j].pc = "drop"
    /\ Oldest(j, m)
    /\ Goto(j, "drop", 0, job[j].todo \ {m})
    /\ UNCHANGED <<now, partitions, meta, txVars>>

(* DROP TABLE needs ACCESS EXCLUSIVE on the parent and on the partition. *)
DropPartition(j) ==
  \E m \in partitions :
    /\ job[j].pc = "dropping"
    /\ Oldest(j, m)
    /\ ~LockHeld
    /\ partitions' = partitions \ {m}
    /\ changelog' = changelog \ RowsOf(m)
    /\ Goto(j, "drop", 0, job[j].todo \ {m})
    /\ UNCHANGED <<now, meta, fingerprints, nextFp, nextId, tx>>

(* lock_timeout, or the partition is gone: the watermark stays. *)
DropFails(j) ==
  \E m \in job[j].todo :
    /\ job[j].pc = "dropping"
    /\ Oldest(j, m)
    /\ Goto(j, "drop", 0, job[j].todo \ {m})
    /\ UNCHANGED <<now, partitions, meta, txVars>>

(* report_headroom only logs; the run is over. *)
JobDone(j) ==
  /\ job[j].pc = "drop"
  /\ job[j].todo = {}
  /\ job' = [job EXCEPT ![j] = Rest]
  /\ UNCHANGED <<now, partitions, meta, txVars>>

(* The worker dies between two statements; each statement has committed. *)
JobCrash(j) ==
  /\ job[j].pc # "idle"
  /\ job' = [job EXCEPT ![j] = Rest]
  /\ UNCHANGED <<now, partitions, meta, txVars>>

-----------------------------------------------------------------------------
WriterStep(w) ==
  \/ InsertFingerprint(w)
  \/ Trigger(w)
  \/ TriggerFails(w)
  \/ Commit(w)
  \/ Rollback(w)

JobStep(j) ==
  \/ JobStart(j)
  \/ CreatePartition(j)
  \/ CreateFails(j)
  \/ ListPartitions(j)
  \/ RecordLastDeleted(j)
  \/ RecordFails(j)
  \/ DropPartition(j)
  \/ DropFails(j)
  \/ JobDone(j)
  \/ JobCrash(j)

Next ==
  \/ \E w \in Writers : WriterStep(w)
  \/ \E j \in Jobs : JobStep(j)
  \/ Tick

Spec == Init /\ [][Next]_vars

-----------------------------------------------------------------------------
(* Properties *)

(* Every variable stays in its set; in particular fpindex_meta never holds a
   second row. *)
TypeOK ==
  /\ now \in Nat
  /\ partitions \subseteq Nat
  /\ changelog \subseteq Row
  /\ meta \subseteq Nat
  /\ \A d, e \in meta : d = e
  /\ fingerprints \subseteq Nat
  /\ nextFp \in Nat
  /\ nextId \in Nat
  /\ tx \in [Writers -> [pc : {"idle", "trigger", "logged"}, row : Row]]
  /\ job \in [Jobs -> [pc : {"idle", "create", "list", "drop", "dropping"},
                       today : Nat, offset : Nat, todo : SUBSET Nat]]

(* "id order equal to the commit order" (tables.py, FPINDEX_CHANGELOG_LOCK_KEY):
   a changelog row that becomes visible has an id above every row that a
   reader could have seen and above the watermark, so "id > cursor" never
   skips a late commit. *)
CommitOrder ==
  [][\A r \in changelog' \ changelog :
       /\ \A s \in changelog : s.id < r.id
       /\ \A d \in meta : d < r.id]_vars

(* "time partitions and an id cursor agree" (tables.py): a row with a higher
   id is never filed under an earlier month, so what retention leaves is a
   contiguous range of ids. *)
MonthsFollowIds ==
  \A r, s \in changelog : r.id < s.id => r.created <= s.created

(* "losing the rows without recording that they went is the one thing
   fpindex_meta exists to prevent" (fpindex_changelog.py): whenever rows
   disappear, the watermark already covers them. *)
LossRecorded ==
  [][\A r \in changelog \ changelog' : \E d \in meta : r.id <= d]_vars

(* "guarded so the watermark only ever moves forward": the floor survives
   retries, failed drops and overlapping runs. *)
WatermarkForward ==
  [][\A d \in meta : \E e \in meta' : d <= e]_vars

(* A consumer inside the retention window is never told that its position
   has aged out: the watermark covers no row of the last RETENTION_MONTHS
   months or of the current one. *)
WindowKept ==
  \A r \in changelog, d \in meta : r.id <= d => r.created + RETENTION_MONTHS < now

(* The inductive invariant behind these properties, in parts. *)

(* Rows are identified by ids that the sequence has given out; fingerprint
   ids start at 1. *)
IdsGivenOut ==
  /\ nextFp > 0
  /\ \A f \in fingerprints : f > 0
  /\ \A r \in changelog : r.id < nextId
  /\ \A d \in meta : d < nextId
  /\ \A r, s \in changelog : r.id = s.id => r = s

(* At most one transaction holds a row; the row is above everything that has
   been committed or given up on, in id and in month, and its month is
   inside the retention window. *)
OpenRowIsNewest ==
  \A w \in Writers :
    /\ tx[w].pc # "idle" => tx[w].row.fp > 0
    /\ tx[w].pc = "logged" =>
         /\ \A v \in Writers : tx[v].pc = "logged" => v = w
         /\ tx[w].row.id < nextId
         /\ \A r \in changelog : r.id < tx[w].row.id /\ r.created <= tx[w].row.created
         /\ \A d \in meta : d < tx[w].row.id
         /\ tx[w].row.created <= now
         /\ now - RETENTION_MONTHS <= tx[w].row.created

(* Nothing is dated in the future, and a run drops only months that left the
   retention window, by a calendar that may be old but is never ahead. *)
CalendarInv ==
  /\ \A r \in changelog : r.created <= now
  /\ \A j \in Jobs :
       /\ job[j].today <= now
       /\ \A m \in job[j].todo : m + RETENTION_MONTHS < job[j].today

(* Between the two statements of drop_partitions the watermark already
   covers the partition that is about to go. *)
DropCovered ==
  \A j \in Jobs : job[j].pc = "dropping" =>
    \A m \in job[j].todo : Oldest(j, m) =>
      \A r \in RowsOf(m) : \E d \in meta : r.id <= d

(* What the protocol of locks, statements and calendars keeps true: the
   inductive strengthening of MonthsFollowIds, WindowKept and the action
   properties above. *)
ChangelogInv ==
  /\ TypeOK
  /\ IdsGivenOut
  /\ OpenRowIsNewest
  /\ CalendarInv
  /\ MonthsFollowIds
  /\ WindowKept
  /\ DropCovered

(* The transactions, partitions and jobs together implement the log that the
   consumers rely on. *)
Log == INSTANCE CommitLog WITH
         entries <- {r.id : r \in changelog},
         floor <- meta

ImplementsLog == Log!LogSpec
=============================================================================
