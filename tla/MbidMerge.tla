------------------------------ MODULE MbidMerge ------------------------------
(***************************************************************************)
(* Following MusicBrainz merges (acoustid/data/track.py, scripts/          *)
(* merge_missing_mbids.py, tasks.py, worker.py).  A lookup that finds an   *)
(* MBID without metadata queues a task; a worker moves the submissions of  *)
(* a redirected MBID to its new one, or disables an MBID that has been     *)
(* unknown for a week.  Importers add submissions and moderators switch    *)
(* links on and off meanwhile.                                             *)
(*                                                                         *)
(* The task writes the fingerprint and the ingest database with two-phase  *)
(* commit, but nothing finishes a transaction whose worker died after      *)
(* PREPARE: it keeps its locks (orphans).  Until a transaction commits,    *)
(* its row locks (held) keep everybody else from the rows it changed.      *)
(*                                                                         *)
(* A row is named by its track and MBID.  track_mbid_change moves with     *)
(* track_mbid_source and is left out.  On a replica the task does nothing: *)
(* the model is the master.                                                *)
(***************************************************************************)
EXTENDS Integers, FiniteSetsExt

CONSTANTS
  Tracks, Mbids, Mergers, Importers,
  None,         \* NULL
  Linked,       \* <<track, MBID>> of the track_mbid rows there at the start
  Unreleased,   \* recordings that are on no release
  BotExists,    \* is there an account acoustid_bot?
  UnknownDays,  \* days before an unknown MBID is disabled (7 in the code)
  MaxDay,       \* bound: replication dates
  MaxQueue,     \* bound: copies of a task in the queue
  MaxEvents     \* bound: MusicBrainz edits, imports, moderators' edits, faults

Rows == Tracks \X Mbids

\* A row of track_mbid.
RowType == [count : Int, disabled : BOOLEAN, into : Mbids \union {None}]

ASSUME MergeAssumption ==
  /\ IsFiniteSet(Mbids) /\ IsFiniteSet(Mergers) /\ IsFiniteSet(Importers)
  /\ Mergers \intersect Importers = {}
  /\ None \notin Mbids \union Mergers \union Importers \union RowType
  /\ UnknownDays \in Nat

VARIABLES
  known,         \* MusicBrainz: gids of recordings
  redirect,      \* MusicBrainz: recording_gid_redirect, resolved to a gid
  day,           \* MusicBrainz: last_replication_date
  rows,          \* fingerprint: track_mbid
  sources,       \* ingest: track_mbid_source rows of each track_mbid row
  queue,         \* Redis: queued merge_missing_mbid tasks
  unknownSince,  \* Redis: unknown_mbid:<mbid>
  wk,            \* the task each worker runs
  imp,           \* the import each importer has under way
  orphans,       \* prepared transactions of dead workers
  imported,      \* history: imports committed to the fingerprint database
  adrift,        \* history: tracks whose two databases were torn apart
  lastKnown,     \* history: the last date an MBID was known or redirected
  returned,      \* history: MBIDs that were unknown and came back
  events         \* history: MusicBrainz edits, imports, toggles, faults so far

musicbrainz == <<known, redirect, day, lastKnown, returned>>
redis == <<queue, unknownSince>>
history == <<imported, adrift>>
merge_vars == <<musicbrainz, rows, sources, redis, wk, imp, orphans, history, events>>

Idle == [pc |-> "idle", mbid |-> None, new |-> None, seen |-> {}, tracks |-> {},
         held |-> {}, moved |-> [t \in Tracks |-> 0], missed |-> {}]
NoImport == [pc |-> "idle", row |-> None, seen |-> FALSE, done |-> {}]

NewRow(n) == [count |-> n, disabled |-> FALSE, into |-> None]

MergeInit ==
  /\ known = Mbids /\ redirect = [m \in Mbids |-> None] /\ day = 0
  /\ rows = [r \in Rows |-> IF r \in Linked THEN NewRow(1) ELSE None]
  /\ sources = [r \in Rows |-> IF r \in Linked THEN 1 ELSE 0]
  /\ imported = [t \in Tracks |-> Cardinality({m \in Mbids : <<t, m>> \in Linked})]
  /\ queue = [m \in Mbids |-> 0] /\ unknownSince = [m \in Mbids |-> None]
  /\ wk = [w \in Mergers |-> Idle] /\ imp = [i \in Importers |-> NoImport]
  /\ orphans = {} /\ adrift = {}
  /\ lastKnown = [m \in Mbids |-> 0] /\ returned = {}
  /\ events = 0

Event == events < MaxEvents /\ events' = events + 1

-----------------------------------------------------------------------------
(* MusicBrainz, replicated: recordings are merged, removed and come back.  *)

Exists(m) == m \in known \/ redirect[m] # None

MbEdit ==
  /\ Event
  /\ \/ \E a \in known : \E b \in known \ {a} :
          /\ known' = known \ {a}
          /\ redirect' = [m \in Mbids |->
                            IF m = a \/ redirect[m] = a THEN b ELSE redirect[m]]
          /\ UNCHANGED returned
     \/ \E a \in known : known' = known \ {a} /\ UNCHANGED <<redirect, returned>>
     \/ \E a \in Mbids :
          /\ ~ Exists(a)
          /\ known' = known \union {a}
          /\ returned' = returned \union {a}
          /\ UNCHANGED redirect
  /\ UNCHANGED <<day, lastKnown, rows, sources, redis, wk, imp, orphans, history>>

Replicate ==
  /\ day < MaxDay
  /\ day' = day + 1
  /\ lastKnown' = [m \in Mbids |-> IF Exists(m) THEN day' ELSE lastKnown[m]]
  /\ UNCHANGED <<known, redirect, returned, rows, sources, redis, wk, imp,
                 orphans, history, events>>

-----------------------------------------------------------------------------
(* API: metadata of a track's MBIDs; those without any are queued.         *)

LookupMbids(t) == {m \in Mbids : rows[<<t, m>>] # None /\ ~ rows[<<t, m>>].disabled}

\* A redirected MBID taken for one that has metadata.
FoundRedirected(ms, withReleases) ==
  {m \in ms : redirect[m] # None \/ (m \in known /\ (withReleases => m \notin Unreleased))}

\* With releases asked for, the metadata query joins recordings to releases.
FoundMetadata(ms, withReleases) ==
  {m \in ms \intersect known : withReleases => m \notin Unreleased}

EnqueueTask(ms) ==
  queue' = [m \in Mbids |-> IF m \in ms THEN Min({queue[m] + 1, MaxQueue}) ELSE queue[m]]

Lookup(t) ==
  /\ \E withReleases \in BOOLEAN :
       LET missing == LookupMbids(t) \ FoundMetadata(LookupMbids(t), withReleases)
       IN /\ \E m \in missing : queue[m] < MaxQueue
          /\ EnqueueTask(missing)
  /\ UNCHANGED <<musicbrainz, rows, sources, unknownSince, wk, imp, orphans,
                 history, events>>

-----------------------------------------------------------------------------
(* Row locks of the fingerprint database *)

\* Does a transaction other than that of worker or importer p hold row r?
Locked(r, p) ==
  \/ \E w \in Mergers \ {p} : r \in wk[w].held
  \/ \E o \in orphans : r \in o.held
  \/ \E i \in Importers \ {p} :
       imp[i].pc = "written" /\ imp[i].row = r /\ "fingerprint" \notin imp[i].done

\* Does another transaction of the ingest database hold the source rows?
SourcesLocked(t, m, w) ==
  \/ \E v \in Mergers \ {w} : wk[v].pc \in {"done", "prepared", "committed"}
                              /\ wk[v].mbid = m /\ t \in wk[v].tracks
  \/ \E o \in orphans : o.mbid = m /\ t \in o.tracks

\* Has another task the advisory lock "merge_missing_mbid" of m?
TaskLocked(m, w) ==
  \/ \E v \in Mergers \ {w} : wk[v].pc \notin {"idle", "committed"} /\ wk[v].mbid = m
  \/ \E o \in orphans : o.mbid = m /\ ~ o.committed

\* Has another task the advisory lock "merge_mbids:target" of m?
TargetLocked(m, w) ==
  \/ \E v \in Mergers \ {w} :
       wk[v].pc \in {"merge", "done", "prepared"} /\ wk[v].new = m
  \/ \E o \in orphans : o.new = m /\ ~ o.committed

-----------------------------------------------------------------------------
(* Worker: run_merge_missing_mbid *)

TaskAt(w, pc) == wk' = [wk EXCEPT ![w].pc = pc]
EndTask(w) == wk' = [wk EXCEPT ![w] = Idle]

\* The task is gone from Redis, whether it can run or not.
Dequeue(w, m) ==
  /\ wk[w].pc = "idle" /\ queue[m] > 0
  /\ queue' = [queue EXCEPT ![m] = @ - 1]
  /\ wk' = IF TaskLocked(m, w) THEN wk
           ELSE [wk EXCEPT ![w] = [Idle EXCEPT !.pc = "lookup", !.mbid = m]]
  /\ UNCHANGED <<musicbrainz, rows, sources, unknownSince, imp, orphans, history, events>>

\* With nothing to do for a known MBID, both transactions are committed all the same.
MergeMissingMbid(w) ==
  LET m == wk[w].mbid IN
  /\ wk[w].pc = "lookup"
  /\ \/ redirect[m] # None /\ wk' = [wk EXCEPT ![w] = [@ EXCEPT !.pc = "target", !.new = redirect[m]]]
     \/ redirect[m] = None /\ m \in known /\ TaskAt(w, "done")
     \/ ~ Exists(m) /\ TaskAt(w, "unknown")
  /\ UNCHANGED <<musicbrainz, rows, sources, redis, imp, orphans, history, events>>

RowsOf(m) == {r \in Rows : r[2] = m /\ rows[r] # None}
TracksOf(m) == {r[1] : r \in RowsOf(m)}

\* The advisory lock, then SELECT ... FOR UPDATE of target and source rows.
LockRows(w) ==
  LET k == wk[w]
      both == RowsOf(k.new) \union RowsOf(k.mbid)
  IN
  /\ k.pc = "target"
  /\ ~ TargetLocked(k.new, w)
  /\ \A r \in both : ~ Locked(r, w)
  /\ wk' = [wk EXCEPT ![w] = [k EXCEPT !.pc = "merge", !.held = both,
                                       !.seen = TracksOf(k.new), !.tracks = TracksOf(k.mbid)]]
  /\ UNCHANGED <<musicbrainz, rows, sources, redis, imp, orphans, history, events>>

\* A row of the target made meanwhile breaks the unique index; a source that
\* was merged elsewhere raises ValueError.  Either way the task is given up.
MergeImpossible(w) ==
  LET k == wk[w] IN
  \/ \E t \in k.tracks \ k.seen : rows[<<t, k.new>>] # None
  \/ \E t \in k.tracks : rows[<<t, k.mbid>>].into \notin {None, k.new}

MergeMbids(w) ==
  LET k == wk[w]
      \* source rows of the counts to be moved that are not committed yet
      Unseen(t) ==
        \/ \E i \in Importers : imp[i].pc = "written" /\ imp[i].row = <<t, k.mbid>>
                                /\ imp[i].done = {"fingerprint"}
        \/ \E v \in Mergers : wk[v].pc = "committed" /\ wk[v].new = k.mbid
                               /\ t \in wk[v].tracks
  IN
  /\ k.pc = "merge"
  /\ \A t \in k.tracks \ k.seen : ~ Locked(<<t, k.new>>, w)
  /\ \A t \in k.tracks : ~ SourcesLocked(t, k.mbid, w)
  /\ IF MergeImpossible(w)
       THEN EndTask(w)
       ELSE wk' = [wk EXCEPT ![w] =
              [k EXCEPT !.pc = "done",
                        !.held = @ \union (k.tracks \X {k.new}),
                        !.moved = [t \in Tracks |->
                                     IF t \in k.tracks THEN sources[<<t, k.mbid>>] ELSE 0],
                        !.missed = {t \in k.tracks : Unseen(t)}]]
  /\ UNCHANGED <<musicbrainz, rows, sources, redis, imp, orphans, history, events>>

\* An MBID that was not seen before is disabled at once.
UnknownAtOnce(w) ==
  /\ wk[w].pc = "unknown"
  /\ IF BotExists THEN TaskAt(w, "disable") ELSE EndTask(w)
  /\ unknownSince' = [unknownSince EXCEPT ![wk[w].mbid] = day]
  /\ UNCHANGED <<musicbrainz, rows, sources, queue, imp, orphans, history, events>>

UnknownMbid(w) ==
  LET m == wk[w].mbid
      since == unknownSince[m]
  IN
  /\ wk[w].pc = "unknown"
  /\ \/ since = None /\ EndTask(w) /\ unknownSince' = [unknownSince EXCEPT ![m] = day]
     \/ /\ since # None
        /\ IF day - since < UnknownDays \/ ~ BotExists THEN EndTask(w) ELSE TaskAt(w, "disable")
        /\ UNCHANGED unknownSince
  /\ UNCHANGED <<musicbrainz, rows, sources, queue, imp, orphans, history, events>>

DisableMbid(w) ==
  LET m == wk[w].mbid IN
  /\ wk[w].pc = "disable"
  /\ \A r \in RowsOf(m) : ~ Locked(r, w)
  /\ wk' = [wk EXCEPT ![w] = [@ EXCEPT !.pc = "done", !.tracks = TracksOf(m), !.held = RowsOf(m)]]
  /\ UNCHANGED <<musicbrainz, rows, sources, redis, imp, orphans, history, events>>

Prepare(w) ==
  /\ wk[w].pc = "done" /\ TaskAt(w, "prepared")
  /\ UNCHANGED <<musicbrainz, rows, sources, redis, imp, orphans, history, events>>

Target(t, k) ==
  IF t \in k.seen THEN rows[<<t, k.new>>] ELSE NewRow(0)

\* The count of the target replaced by that of the source.
MergedOver(k) ==
  [r \in Rows |->
    LET t == r[1] IN
    CASE t \in k.tracks /\ r[2] = k.mbid ->
           [count |-> 0, disabled |-> TRUE, into |-> k.new]
      [] t \in k.tracks /\ r[2] = k.new ->
           [Target(t, k) EXCEPT !.count = rows[<<t, k.mbid>>].count,
                                !.disabled = @ /\ rows[<<t, k.mbid>>].disabled]
      [] OTHER -> rows[r]]

\* track_mbid after the statements of merge_mbids.
Merged(k) ==
  [r \in Rows |->
    LET t == r[1] IN
    CASE t \in k.tracks /\ r[2] = k.mbid ->
           [count |-> 0, disabled |-> TRUE, into |-> k.new]
      [] t \in k.tracks /\ r[2] = k.new ->
           [Target(t, k) EXCEPT !.count = @ + rows[<<t, k.mbid>>].count,
                                !.disabled = @ /\ rows[<<t, k.mbid>>].disabled]
      [] OTHER -> rows[r]]

\* track_mbid after disable_mbid.
Disabled(k) ==
  [r \in Rows |-> IF r[2] = k.mbid /\ r[1] \in k.tracks
                    THEN [rows[r] EXCEPT !.disabled = TRUE] ELSE rows[r]]

\* The rows are locked: they are as SELECT ... FOR UPDATE has read them.
CommitFingerprint(w) ==
  LET k == wk[w] IN
  /\ k.pc = "prepared"
  /\ rows' = IF k.new = None THEN Disabled(k) ELSE Merged(k)
  /\ adrift' = adrift \union k.missed
  /\ wk' = [wk EXCEPT ![w] = [@ EXCEPT !.pc = "committed", !.held = {}]]
  /\ UNCHANGED <<musicbrainz, sources, redis, imp, orphans, imported, events>>

\* The sources stay with the MBID that was merged away.
CommitWithoutSources(w) ==
  /\ wk[w].pc = "committed"
  /\ EndTask(w)
  /\ UNCHANGED <<musicbrainz, rows, sources, redis, imp, orphans, history, events>>

CommitIngest(w) ==
  LET k == wk[w] IN
  /\ k.pc = "committed"
  /\ sources' = IF k.new = None THEN sources ELSE
       [r \in Rows |-> CASE r[2] = k.mbid -> sources[r] - k.moved[r[1]]
                         [] r[2] = k.new -> sources[r] + k.moved[r[1]]
                         [] OTHER -> sources[r]]
  /\ EndTask(w)
  /\ UNCHANGED <<musicbrainz, rows, redis, imp, orphans, history, events>>

\* What a transaction that is ended without its ingest half leaves behind.
TornTracks(k) == IF k.pc = "committed" /\ k.new # None THEN k.tracks ELSE {}

\* An exception: both transactions are rolled back, prepared or not.
TaskFails(w) ==
  /\ wk[w].pc # "idle" /\ Event
  /\ adrift' = adrift \union TornTracks(wk[w])
  /\ EndTask(w)
  /\ UNCHANGED <<musicbrainz, rows, sources, redis, imp, orphans, imported>>

\* The worker dies: what is prepared stays prepared.  Between the two PREPAREs
\* that is the fingerprint half only.
WorkerDies(w) ==
  LET k == wk[w] IN
  /\ k.pc # "idle" /\ Event
  /\ \/ k.pc \notin {"prepared", "committed"} /\ UNCHANGED orphans
     \/ /\ k.pc \in {"done", "prepared", "committed"}
        /\ orphans' = orphans \union
             {[mbid |-> k.mbid, new |-> k.new, held |-> k.held,
               committed |-> k.pc = "committed",
               tracks |-> IF k.pc = "done" THEN {} ELSE k.tracks]}
  /\ adrift' = adrift \union TornTracks(k)
  /\ EndTask(w)
  /\ UNCHANGED <<musicbrainz, rows, sources, redis, imp, imported>>

-----------------------------------------------------------------------------
(* Importer: _insert_gid and the two commits *)

\* Two imports of one MBID exclude each other until the ingest commit.
ImportStart(i, r) ==
  /\ imp[i].pc = "idle" /\ Event
  /\ \A j \in Importers \ {i} :
       imp[j].pc # "idle" /\ imp[j].row[2] = r[2] => "ingest" \in imp[j].done
  /\ imp' = [imp EXCEPT ![i] =
       [pc |-> "write", row |-> r, seen |-> rows[r] # None, done |-> {}]]
  /\ UNCHANGED <<musicbrainz, rows, sources, redis, wk, orphans, history>>

\* UPDATE waits for the row; INSERT waits for another INSERT of it and fails
\* when that one commits.  The statement timeout ends a wait.
ImportWrite(i) ==
  /\ imp[i].pc = "write"
  /\ imp' = [imp EXCEPT ![i] =
       IF Locked(imp[i].row, i) \/ (~ imp[i].seen /\ rows[imp[i].row] # None)
         THEN NoImport ELSE [@ EXCEPT !.pc = "written"]]
  /\ UNCHANGED <<musicbrainz, rows, sources, redis, wk, orphans, history, events>>

Ended(i, database) ==
  imp' = [imp EXCEPT ![i] = IF @.done = {} THEN [@ EXCEPT !.done = {database}] ELSE NoImport]

ImportCommitFingerprint(i) ==
  LET r == imp[i].row IN
  /\ imp[i].pc = "written" /\ "fingerprint" \notin imp[i].done
  /\ rows' = [rows EXCEPT ![r] = IF @ = None
                THEN NewRow(1)
                ELSE [@ EXCEPT !.count = rows[r].count + 1]]
  /\ imported' = [imported EXCEPT ![r[1]] = @ + 1]
  /\ Ended(i, "fingerprint")
  /\ UNCHANGED <<musicbrainz, sources, redis, wk, orphans, adrift, events>>

ImportCommitIngest(i) ==
  /\ imp[i].pc = "written" /\ "ingest" \notin imp[i].done
  /\ sources' = [sources EXCEPT ![imp[i].row] = @ + 1]
  /\ Ended(i, "ingest")
  /\ UNCHANGED <<musicbrainz, rows, redis, wk, orphans, history, events>>

ImportFails(i) ==
  /\ imp[i].pc # "idle" /\ Event
  /\ adrift' = IF imp[i].done = {} THEN adrift ELSE adrift \union {imp[i].row[1]}
  /\ imp' = [imp EXCEPT ![i] = NoImport]
  /\ UNCHANGED <<musicbrainz, rows, sources, redis, wk, orphans, imported>>

-----------------------------------------------------------------------------
(* Web: a moderator links or unlinks an MBID, merged or not.               *)

ToggleTrackMbid(r) ==
  /\ rows[r] # None /\ ~ Locked(r, None)
  /\ Event
  /\ rows' = [rows EXCEPT ![r] = [@ EXCEPT !.disabled = ~ rows[r].disabled]]
  /\ UNCHANGED <<musicbrainz, sources, redis, wk, imp, orphans, history>>

-----------------------------------------------------------------------------
TaskStep(w) ==
  \/ MergeMissingMbid(w) \/ LockRows(w) \/ MergeMbids(w)
  \/ UnknownMbid(w) \/ DisableMbid(w) \/ Prepare(w)
  \/ CommitFingerprint(w) \/ CommitIngest(w)

ImporterStep(i) ==
  ImportWrite(i) \/ ImportCommitFingerprint(i) \/ ImportCommitIngest(i)

MergeNext ==
  \/ MbEdit \/ Replicate
  \/ \E t \in Tracks : Lookup(t)
  \/ \E w \in Mergers :
       TaskStep(w) \/ TaskFails(w) \/ WorkerDies(w) \/ \E m \in Mbids : Dequeue(w, m)
  \/ \E i \in Importers : ImporterStep(i) \/ ImportFails(i) \/ \E r \in Rows : ImportStart(i, r)
  \/ \E r \in Rows : ToggleTrackMbid(r)

\* Clients keep looking tracks up, workers draw from all the lists whenever one
\* of them is free and go on with their task, imports end.
MergeFairness ==
  /\ \A t \in Tracks : WF_merge_vars(Lookup(t))
  /\ \A w \in Mergers : WF_merge_vars(TaskStep(w))
  /\ \A m \in Mbids : SF_merge_vars(\E w \in Mergers : Dequeue(w, m))
  /\ \A i \in Importers : WF_merge_vars(ImporterStep(i))

MergeSpec == MergeInit /\ [][MergeNext]_merge_vars
MergeFairSpec == MergeSpec /\ MergeFairness

-----------------------------------------------------------------------------
(* Properties *)

CountOf(r) == IF rows[r] = None THEN 0 ELSE rows[r].count

(* merge_mbids reads submission_count under FOR UPDATE and adds it to the
   target: whatever importers, other merges and dead workers do meanwhile, the
   counts of a track's MBIDs add up to the submissions imported for it. *)
CountsConserved ==
  \A t \in Tracks :
    SumFunctionOnSet([m \in Mbids |-> CountOf(<<t, m>>)], Mbids) = imported[t]

\* Imports of MBID m for track t that one database only has committed.
Half(t, m, database) ==
  {i \in Importers :
     imp[i].pc = "written" /\ imp[i].row = <<t, m>> /\ imp[i].done = {database}}

(* track_mbid_source says which submissions a count stands for.  Count and
   sources of each row agree but for imports and merges between their two
   commits, unless one of these was torn (adrift): its process died there, or
   a merge came between the two commits of an import or of another merge and
   could not see the source rows it should have moved. *)
SourcesExplainCounts ==
  \A t \in Tracks \ adrift, m \in Mbids :
    (\A w \in Mergers : wk[w].pc = "committed" => t \notin wk[w].tracks)
      => CountOf(<<t, m>>) + Cardinality(Half(t, m, "ingest"))
           = sources[<<t, m>>] + Cardinality(Half(t, m, "fingerprint"))

(* "MBID has been unknown for too long": the task disables a link only when
   MusicBrainz has not known the MBID for UnknownDays.  The key in Redis is never
   removed: an MBID that came back since it was written (returned) has no such
   protection when it disappears again. *)
DisabledAfterGrace ==
  [][\A r \in Rows, w \in Mergers :
       /\ wk[w].pc = "prepared" /\ wk'[w].pc = "committed"
       /\ rows[r] # None /\ ~ rows[r].disabled
       /\ rows'[r].disabled /\ rows'[r].into = None
       => r[2] \in returned \/ day - lastKnown[r[2]] >= UnknownDays]_merge_vars

-----------------------------------------------------------------------------
(* The inductive invariant behind them *)

TaskType ==
  [pc : {"idle", "lookup", "target", "merge", "unknown", "disable", "done",
         "prepared", "committed"},
   mbid : Mbids \union {None}, new : Mbids \union {None},
   seen : SUBSET Tracks, tracks : SUBSET Tracks, held : SUBSET Rows,
   moved : [Tracks -> Int], missed : SUBSET Tracks]

ImportType ==
  [pc : {"idle", "write", "written"}, row : Rows \union {None}, seen : BOOLEAN,
   done : {{}, {"fingerprint"}, {"ingest"}}]

MergeTyped ==
  /\ known \subseteq Mbids /\ redirect \in [Mbids -> Mbids \union {None}] /\ day \in Nat
  /\ lastKnown \in [Mbids -> Nat] /\ unknownSince \in [Mbids -> Nat \union {None}]
  /\ rows \in [Rows -> RowType \union {None}] /\ sources \in [Rows -> Int]
  /\ imported \in [Tracks -> Int] /\ returned \subseteq Mbids
  /\ wk \in [Mergers -> TaskType] /\ imp \in [Importers -> ImportType]

\* A redirected MBID is gone, and is not its own target.
RedirectsSound ==
  \A m \in Mbids : redirect[m] # None => m \notin known /\ redirect[m] # m

\* What a task knows of the rows it has locked is still true of them.
TaskSound(k) ==
  /\ k.pc # "idle" => k.mbid \in Mbids /\ k.new # k.mbid
  /\ k.pc \in {"target", "merge"} => k.new # None
  /\ k.pc \in {"lookup", "unknown", "disable"} => k.new = None
  /\ k.pc = "lookup" => k.tracks = {}
  /\ k.pc \in {"merge", "done", "prepared"} =>
       \A t \in k.tracks : <<t, k.mbid>> \in k.held /\ rows[<<t, k.mbid>>] # None
  /\ k.pc = "merge" =>
       \A t \in k.tracks \intersect k.seen : <<t, k.new>> \in k.held /\ rows[<<t, k.new>>] # None
  /\ k.pc \in {"done", "prepared"} /\ k.new # None =>
       \A t \in k.tracks : <<t, k.new>> \in k.held /\ (t \in k.seen <=> rows[<<t, k.new>>] # None)

\* An import under way is about a row, and has committed nothing before it wrote.
ImportSound(q) ==
  /\ q.pc # "idle" => q.row \in Rows
  /\ q.pc = "write" => q.done = {}

\* One transaction at a time in a row, of a worker or of an importer.
RowsExclusive ==
  /\ \A v, w \in Mergers : v # w => wk[v].held \intersect wk[w].held = {}
  /\ \A i \in Importers, w \in Mergers :
       imp[i].pc = "written" /\ "fingerprint" \notin imp[i].done => imp[i].row \notin wk[w].held

\* The key in Redis is as old as the absence of its MBID, unless that came back.
GraceKept ==
  /\ \A m \in Mbids :
       /\ lastKnown[m] <= day
       /\ unknownSince[m] # None =>
            m \in returned \/ (~ Exists(m) /\ lastKnown[m] <= unknownSince[m])
  /\ \A w \in Mergers :
       LET k == wk[w] IN
       /\ k.pc = "unknown" => k.mbid \in returned \/ ~ Exists(k.mbid)
       /\ k.pc = "disable" \/ (k.pc \in {"done", "prepared"} /\ k.new = None /\ k.tracks # {}) =>
            k.mbid \in returned \/ (~ Exists(k.mbid) /\ day - lastKnown[k.mbid] >= UnknownDays)

\* Sources that worker w is about to move to MBID m (or, negative, from it).
OnTheWay(w, t, m) ==
  LET k == wk[w] IN
  IF k.pc = "committed" /\ k.new # None /\ t \in k.tracks
    THEN IF m = k.new THEN k.moved[t] ELSE IF m = k.mbid THEN - k.moved[t] ELSE 0
    ELSE 0

\* SourcesExplainCounts in the middle of merges: their sources are on the way.
Balanced(t, m) ==
  CountOf(<<t, m>>) + Cardinality(Half(t, m, "ingest")) =
    sources[<<t, m>>] + Cardinality(Half(t, m, "fingerprint"))
      + SumFunctionOnSet([w \in Mergers |-> OnTheWay(w, t, m)], Mergers)

\* A merge that is prepared will move as many sources as it moves counts, but for
\* those it could not see.
MovesItsCounts(k) ==
  /\ k.pc \in {"done", "prepared"} /\ k.new # None =>
       \A t \in k.tracks \ (k.missed \union adrift) : k.moved[t] = CountOf(<<t, k.mbid>>)
  /\ k.pc \in {"done", "prepared", "committed"} /\ k.new # None =>
       \A t \in Tracks \ k.tracks : k.moved[t] = 0

Explained ==
  /\ \A t \in Tracks \ adrift, m \in Mbids : Balanced(t, m)
  /\ \A w \in Mergers : MovesItsCounts(wk[w])

MergeInv ==
  /\ MergeTyped /\ RedirectsSound
  /\ \A w \in Mergers : TaskSound(wk[w])
  /\ \A i \in Importers : ImportSound(imp[i])
  /\ RowsExclusive /\ GraceKept /\ CountsConserved /\ Explained

-----------------------------------------------------------------------------
\* A prepared transaction is in the way, or m was merged elsewhere before.
Stuck(m) ==
  \/ \E o \in orphans : {o.mbid, o.new} \intersect {m, redirect[m]} # {}
  \/ \E t \in Tracks : rows[<<t, m>>] # None /\ rows[<<t, m>>].into \notin {None, redirect[m]}

(* A track does not go on showing an MBID that MusicBrainz has redirected:
   tasks are lost with their worker, given up on conflicts and dropped when
   another one is under way, but every lookup queues a new one. *)
EventuallyMerged ==
  \A t \in Tracks, m \in Mbids :
    (redirect[m] # None /\ m \in LookupMbids(t)) ~> (m \notin LookupMbids(t) \/ Stuck(m))
=============================================================================
