--------------------------- MODULE MbidMergeProofs ---------------------------
(***************************************************************************)
(* Proofs about MbidMerge, for any number of tracks, MBIDs, workers,       *)
(* importers and faults: no merge loses or invents a count, the sources    *)
(* follow the counts into the other database, and a link is disabled only  *)
(* after the days of grace.                                                *)
(***************************************************************************)
EXTENDS MbidMerge, Sums

-----------------------------------------------------------------------------
(* How a step changes the tasks *)

\* Worker w goes on with the task k, all others with theirs.
Becomes(w, k) ==
  /\ wk' \in [Mergers -> TaskType] /\ k \in TaskType
  /\ wk'[w] = k /\ \A v \in Mergers \ {w} : wk'[v] = wk[v]

\* An assignment to the task of one worker leaves the other tasks alone.
LEMMA Assigned ==
  ASSUME MergeTyped, NEW w \in Mergers, NEW k \in TaskType, wk' = [wk EXCEPT ![w] = k]
  PROVE  Becomes(w, k)
BY DEF MergeTyped, Becomes, TaskType

\* A worker without a task.
LEMMA IdleTask ==
  /\ Idle \in TaskType /\ Idle.pc = "idle" /\ Idle.mbid = None /\ Idle.new = None
  /\ Idle.seen = {} /\ Idle.tracks = {} /\ Idle.held = {} /\ Idle.missed = {}
  /\ Idle.moved = [t \in Tracks |-> 0]
BY DEF Idle, TaskType

\* The task that follows k at step pc.
At(k, pc) == [k EXCEPT !.pc = pc]

\* It differs from k in nothing else.
LEMMA TaskAtPc ==
  ASSUME NEW k \in TaskType,
         NEW pc \in {"idle", "lookup", "target", "merge", "unknown", "disable", "done",
                     "prepared", "committed"}
  PROVE  /\ At(k, pc) \in TaskType /\ At(k, pc).pc = pc
         /\ At(k, pc).mbid = k.mbid /\ At(k, pc).new = k.new
         /\ At(k, pc).seen = k.seen /\ At(k, pc).tracks = k.tracks
         /\ At(k, pc).held = k.held /\ At(k, pc).moved = k.moved
         /\ At(k, pc).missed = k.missed
BY DEF At, TaskType

\* A step of TaskAt moves one worker on.
LEMMA TaskAtBecomes ==
  ASSUME MergeTyped, NEW w \in Mergers,
         NEW pc \in {"idle", "lookup", "target", "merge", "unknown", "disable", "done",
                     "prepared", "committed"},
         TaskAt(w, pc)
  PROVE  Becomes(w, At(wk[w], pc))
<1>1. wk[w] \in TaskType
  BY DEF MergeTyped
<1>2. wk' = [wk EXCEPT ![w] = At(wk[w], pc)]
  BY DEF TaskAt, At
<1>3. At(wk[w], pc) \in TaskType
  BY <1>1, TaskAtPc
<1>4. QED BY <1>2, <1>3, Assigned

\* A task that ends leaves its worker idle.
LEMMA EndTaskBecomes ==
  ASSUME MergeTyped, NEW w \in Mergers, EndTask(w)
  PROVE  Becomes(w, Idle)
BY IdleTask, Assigned DEF EndTask

\* A task that is drawn and not dropped starts with no locks.
LEMMA DequeueBecomes ==
  ASSUME MergeTyped, NEW w \in Mergers, NEW m \in Mbids, Dequeue(w, m), wk' # wk
  PROVE  \E k \in TaskType :
           /\ Becomes(w, k) /\ k.pc = "lookup" /\ k.mbid = m /\ k.new = None
           /\ k.held = {} /\ k.tracks = {} /\ k.moved = [t \in Tracks |-> 0]
<1> DEFINE k == [Idle EXCEPT !.pc = "lookup", !.mbid = m]
<1>1. k \in TaskType /\ k.pc = "lookup" /\ k.mbid = m /\ k.new = None /\ k.held = {}
      /\ k.tracks = {} /\ k.moved = [t \in Tracks |-> 0]
  BY IdleTask DEF TaskType
<1>2. wk' = [wk EXCEPT ![w] = k]
  BY DEF Dequeue
<1> HIDE DEF k
<1>3. QED BY <1>1, <1>2, Assigned

\* Locking the rows of target and source notes which tracks have them.
LEMMA LockRowsBecomes ==
  ASSUME MergeTyped, NEW w \in Mergers, LockRows(w)
  PROVE  \E k \in TaskType :
           /\ Becomes(w, k) /\ k.pc = "merge" /\ k.mbid = wk[w].mbid /\ k.new = wk[w].new
           /\ k.seen = TracksOf(wk[w].new) /\ k.tracks = TracksOf(wk[w].mbid)
           /\ k.held = RowsOf(wk[w].new) \union RowsOf(wk[w].mbid)
           /\ k.moved = wk[w].moved /\ k.missed = wk[w].missed
<1> DEFINE k == [wk[w] EXCEPT !.pc = "merge", !.held = RowsOf(wk[w].new) \union RowsOf(wk[w].mbid),
                              !.seen = TracksOf(wk[w].new), !.tracks = TracksOf(wk[w].mbid)]
<1>1. wk[w] \in TaskType
  BY DEF MergeTyped
<1>2. \A m : RowsOf(m) \subseteq Rows /\ TracksOf(m) \subseteq Tracks
  BY DEF RowsOf, TracksOf, Rows
<1>3. k \in TaskType /\ k.pc = "merge" /\ k.mbid = wk[w].mbid /\ k.new = wk[w].new
           /\ k.seen = TracksOf(wk[w].new) /\ k.tracks = TracksOf(wk[w].mbid)
           /\ k.held = RowsOf(wk[w].new) \union RowsOf(wk[w].mbid)
           /\ k.moved = wk[w].moved /\ k.missed = wk[w].missed
  BY <1>1, <1>2 DEF TaskType
<1>4. wk' = [wk EXCEPT ![w] = k]
  BY DEF LockRows
<1> HIDE DEF k
<1>5. QED BY <1>3, <1>4, Assigned

\* The MusicBrainz lookup finds the MBID itself, a target or nothing.
LEMMA LookupBecomes ==
  ASSUME MergeTyped, NEW w \in Mergers, TaskSound(wk[w]), MergeMissingMbid(w)
  PROVE  \/ Becomes(w, At(wk[w], "unknown")) /\ ~ Exists(wk[w].mbid)
         \/ Becomes(w, At(wk[w], "done")) /\ wk[w].new = None /\ wk[w].tracks = {}
         \/ /\ redirect[wk[w].mbid] # None
            /\ \E k \in TaskType :
                 /\ Becomes(w, k) /\ k.pc = "target" /\ k.mbid = wk[w].mbid
                 /\ k.new = redirect[wk[w].mbid] /\ k.moved = wk[w].moved
                 /\ k.held = wk[w].held
<1> DEFINE m == wk[w].mbid
           k == [wk[w] EXCEPT !.pc = "target", !.new = redirect[m]]
<1>1. CASE TaskAt(w, "done")
  BY <1>1, TaskAtBecomes DEF TaskSound, MergeMissingMbid
<1>2. CASE ~ Exists(m) /\ TaskAt(w, "unknown")
  BY <1>2, TaskAtBecomes
<1>3. CASE redirect[m] # None /\ wk' = [wk EXCEPT ![w] = k]
  <2>1. wk[w] \in TaskType /\ wk[w].mbid \in Mbids
    BY DEF MergeTyped, MergeMissingMbid, TaskSound
  <2>2. redirect[m] \in Mbids \union {None}
    BY <2>1 DEF MergeTyped
  <2>3. k \in TaskType /\ k.pc = "target" /\ k.mbid = wk[w].mbid /\ k.new = redirect[m]
        /\ k.moved = wk[w].moved /\ k.held = wk[w].held
    BY <2>1, <2>2 DEF TaskType
  <2> HIDE DEF k
  <2>4. QED BY <1>3, <2>3, Assigned
<1>4. QED BY <1>1, <1>2, <1>3 DEF MergeMissingMbid

\* The statements of merge_mbids lock the rows they make and note the sources they
\* will move; whose sources they could not see is noted too.
LEMMA MergeBecomes ==
  ASSUME MergeTyped, NEW w \in Mergers, MergeMbids(w), ~ MergeImpossible(w), TaskSound(wk[w])
  PROVE  \E k \in TaskType :
           /\ Becomes(w, k) /\ k.pc = "done" /\ k.mbid = wk[w].mbid /\ k.new = wk[w].new
           /\ k.seen = wk[w].seen /\ k.tracks = wk[w].tracks
           /\ k.held = wk[w].held \union (wk[w].tracks \X {wk[w].new})
           /\ \A t \in Tracks : k.moved[t] = IF t \in k.tracks THEN sources[<<t, k.mbid>>] ELSE 0
           /\ \A t \in k.tracks \ k.missed :
                /\ \A i \in Importers : ~ (imp[i].pc = "written" /\ imp[i].row = <<t, k.mbid>>
                                           /\ imp[i].done = {"fingerprint"})
                /\ \A v \in Mergers : ~ (wk[v].pc = "committed" /\ wk[v].new = k.mbid
                                         /\ t \in wk[v].tracks)
<1> DEFINE q == wk[w]
           Unseen(t) ==
             \/ \E i \in Importers : imp[i].pc = "written" /\ imp[i].row = <<t, q.mbid>>
                                     /\ imp[i].done = {"fingerprint"}
             \/ \E v \in Mergers : wk[v].pc = "committed" /\ wk[v].new = q.mbid
                                    /\ t \in wk[v].tracks
           moved == [t \in Tracks |-> IF t \in q.tracks THEN sources[<<t, q.mbid>>] ELSE 0]
           missed == {t \in q.tracks : Unseen(t)}
           held == q.held \union (q.tracks \X {q.new})
           k == [q EXCEPT !.pc = "done", !.held = held, !.moved = moved, !.missed = missed]
<1>1. wk' = [wk EXCEPT ![w] = k]
  BY DEF MergeMbids
<1>2. q \in TaskType /\ q.mbid \in Mbids /\ q.new \in Mbids
  BY DEF MergeTyped, TaskType, TaskSound, MergeMbids
<1>3. moved \in [Tracks -> Int]
  <2>1. ASSUME NEW t \in Tracks
        PROVE  sources[<<t, q.mbid>>] \in Int
    <3> DEFINE r == <<t, q.mbid>>
    <3>1. r \in Rows
      BY <1>2 DEF Rows
    <3> HIDE DEF r
    <3>2. sources[r] \in Int
      BY <3>1 DEF MergeTyped
    <3>3. QED BY <3>2 DEF r
  <2>2. QED BY <2>1
<1>4. missed \subseteq Tracks /\ held \subseteq Rows
  BY <1>2 DEF TaskType, Rows
<1>5. /\ \A t \in Tracks : moved[t] = IF t \in q.tracks THEN sources[<<t, q.mbid>>] ELSE 0
      /\ \A t \in q.tracks \ missed : ~ Unseen(t)
  OBVIOUS
<1> HIDE DEF moved, missed, held
<1>6. k \in TaskType /\ k.pc = "done" /\ k.mbid = q.mbid /\ k.new = q.new /\ k.seen = q.seen
      /\ k.tracks = q.tracks /\ k.held = held /\ k.moved = moved /\ k.missed = missed
  BY <1>2, <1>3, <1>4 DEF TaskType
<1> HIDE DEF k
<1>7. Becomes(w, k)
  BY <1>1, <1>6, Assigned
<1>8. k.held = wk[w].held \union (wk[w].tracks \X {wk[w].new})
  BY <1>6 DEF held
<1>9. \A t \in Tracks : k.moved[t] = IF t \in k.tracks THEN sources[<<t, k.mbid>>] ELSE 0
  BY <1>5, <1>6
<1>10. ASSUME NEW t \in k.tracks \ k.missed
       PROVE  /\ \A i \in Importers : ~ (imp[i].pc = "written" /\ imp[i].row = <<t, k.mbid>>
                                           /\ imp[i].done = {"fingerprint"})
              /\ \A v \in Mergers : ~ (wk[v].pc = "committed" /\ wk[v].new = k.mbid
                                         /\ t \in wk[v].tracks)
  BY <1>5, <1>6
<1> HIDE DEF q
<1>11. k.mbid = wk[w].mbid /\ k.new = wk[w].new /\ k.seen = wk[w].seen /\ k.tracks = wk[w].tracks
  BY <1>6 DEF q
<1>12. k \in TaskType /\ k.pc = "done"
  BY <1>6
<1>13. QED BY <1>7, <1>8, <1>9, <1>10, <1>11, <1>12

\* disable_mbid locks the rows of the MBID.
LEMMA DisableBecomes ==
  ASSUME MergeTyped, NEW w \in Mergers, DisableMbid(w)
  PROVE  \E k \in TaskType :
           /\ Becomes(w, k) /\ k.pc = "done" /\ k.mbid = wk[w].mbid /\ k.new = wk[w].new
           /\ k.tracks = TracksOf(wk[w].mbid) /\ k.held = RowsOf(wk[w].mbid)
           /\ k.moved = wk[w].moved
<1> DEFINE m == wk[w].mbid
           k == [wk[w] EXCEPT !.pc = "done", !.tracks = TracksOf(m), !.held = RowsOf(m)]
<1>1. wk[w] \in TaskType
  BY DEF MergeTyped
<1>2. RowsOf(m) \subseteq Rows /\ TracksOf(m) \subseteq Tracks
  BY DEF RowsOf, TracksOf, Rows
<1>3. k \in TaskType /\ k.pc = "done" /\ k.mbid = wk[w].mbid /\ k.new = wk[w].new
      /\ k.tracks = TracksOf(wk[w].mbid) /\ k.held = RowsOf(wk[w].mbid)
      /\ k.moved = wk[w].moved
  BY <1>1, <1>2 DEF TaskType
<1>4. wk' = [wk EXCEPT ![w] = k]
  BY DEF DisableMbid
<1> HIDE DEF k
<1>5. QED BY <1>3, <1>4, Assigned

\* COMMIT PREPARED gives up the row locks.
LEMMA CommitBecomes ==
  ASSUME MergeTyped, NEW w \in Mergers, CommitFingerprint(w)
  PROVE  \E k \in TaskType :
           /\ Becomes(w, k) /\ k.pc = "committed" /\ k.mbid = wk[w].mbid /\ k.new = wk[w].new
           /\ k.tracks = wk[w].tracks /\ k.held = {} /\ k.moved = wk[w].moved
<1> DEFINE k == [wk[w] EXCEPT !.pc = "committed", !.held = {}]
<1>1. wk[w] \in TaskType
  BY DEF MergeTyped
<1>2. k \in TaskType /\ k.pc = "committed" /\ k.mbid = wk[w].mbid /\ k.new = wk[w].new
           /\ k.tracks = wk[w].tracks /\ k.held = {} /\ k.moved = wk[w].moved
  BY <1>1 DEF TaskType
<1>3. wk' = [wk EXCEPT ![w] = k]
  BY DEF CommitFingerprint
<1> HIDE DEF k
<1>4. QED BY <1>2, <1>3, Assigned

-----------------------------------------------------------------------------
(* What a commit does to the rows *)

\* A row is a pair of a track and an MBID.
LEMMA RowIsPair ==
  /\ \A t \in Tracks, m \in Mbids : <<t, m>> \in Rows
  /\ \A r \in Rows : r[1] \in Tracks /\ r[2] \in Mbids /\ r = <<r[1], r[2]>>
BY DEF Rows

\* There is no row NULL, and a row that is there is one.
LEMMA RowThere ==
  ASSUME MergeTyped, NEW r \in Rows
  PROVE  /\ rows[r] # None => rows[r] \in RowType
         /\ rows[r] \in RowType => rows[r] # None
         /\ CountOf(r) \in Int
BY MergeAssumption DEF MergeTyped, RowType, CountOf

\* merge_mbids empties the source, adds its count to the target, whether that
\* was there or not, and leaves the other rows alone.
LEMMA MergedRow ==
  ASSUME MergeTyped, NEW k \in TaskType, TaskSound(k), k.pc = "prepared", k.new # None,
         NEW t \in Tracks, NEW m \in Mbids
  PROVE  /\ t \notin k.tracks \/ m \notin {k.mbid, k.new} =>
              Merged(k)[<<t, m>>] = rows[<<t, m>>]
         /\ t \in k.tracks /\ m = k.mbid =>
              Merged(k)[<<t, m>>] = [count |-> 0, disabled |-> TRUE, into |-> k.new]
         /\ t \in k.tracks /\ m = k.new =>
              /\ Merged(k)[<<t, m>>] \in RowType
              /\ Merged(k)[<<t, m>>].count = CountOf(<<t, k.new>>) + CountOf(<<t, k.mbid>>)
<1> DEFINE r == <<t, m>>
<1>1. r \in Rows /\ r[1] = t /\ r[2] = m /\ k.mbid \in Mbids /\ k.new \in Mbids /\ k.new # k.mbid
  BY RowIsPair DEF TaskSound, TaskType
<1>2. CASE t \notin k.tracks \/ m \notin {k.mbid, k.new}
  BY <1>1, <1>2 DEF Merged
<1>3. CASE t \in k.tracks /\ m = k.mbid
  BY <1>1, <1>3 DEF Merged
<1>4. CASE t \in k.tracks /\ m = k.new
  <2> DEFINE s == <<t, k.mbid>>
             q == [Target(t, k) EXCEPT !.count = @ + rows[s].count,
                                       !.disabled = @ /\ rows[s].disabled]
  <2>1. Merged(k)[r] = q
    BY <1>1, <1>4 DEF Merged
  <2>2. s \in Rows /\ rows[s] \in RowType /\ CountOf(s) = rows[s].count
    <3>1. rows[s] # None
      BY <1>4 DEF TaskSound
    <3>2. s \in Rows
      BY <1>1, RowIsPair
    <3>3. QED BY <3>1, <3>2, RowThere DEF CountOf
  <2>3. Target(t, k) \in RowType /\ Target(t, k).count = CountOf(r)
    <3>1. t \in k.seen <=> rows[r] # None
      BY <1>4 DEF TaskSound
    <3>2. NewRow(0) \in RowType /\ NewRow(0).count = 0
      BY DEF NewRow, RowType
    <3>3. QED BY <1>1, <1>4, <3>1, <3>2, RowThere DEF Target, CountOf
  <2>4. q \in RowType /\ q.count = CountOf(r) + CountOf(s)
    <3> DEFINE a == Target(t, k)
               b == rows[s]
               both == a.disabled /\ b.disabled
    <3>1. a \in RowType /\ b \in RowType /\ both \in BOOLEAN
      BY <2>2, <2>3 DEF RowType
    <3>2. q = [a EXCEPT !.count = a.count + b.count, !.disabled = both]
      OBVIOUS
    <3>3. a.count = CountOf(r) /\ b.count = CountOf(s)
      BY <2>2, <2>3
    <3> HIDE DEF a, b, both, q
    <3>4. a.count \in Int /\ b.count \in Int /\ a.into \in Mbids \union {None}
      BY <3>1 DEF RowType
    <3>5. q.count = a.count + b.count /\ q.disabled = both /\ q.into = a.into
      BY <3>1, <3>2 DEF RowType
    <3>6. q = [count |-> a.count + b.count, disabled |-> both, into |-> a.into]
      BY <3>1, <3>2 DEF RowType
    <3>7. q \in RowType
      BY <3>1, <3>4, <3>6 DEF RowType
    <3>8. QED BY <3>3, <3>5, <3>7
  <2> HIDE DEF q
  <2>5. QED BY <1>1, <1>4, <2>1, <2>4 DEF r, s
<1>5. QED BY <1>2, <1>3, <1>4

\* disable_mbid only disables.
LEMMA DisabledRow ==
  ASSUME MergeTyped, NEW k \in TaskType, TaskSound(k), k.pc = "prepared", NEW r \in Rows
  PROVE  /\ r[2] # k.mbid \/ r[1] \notin k.tracks => Disabled(k)[r] = rows[r]
         /\ r[2] = k.mbid /\ r[1] \in k.tracks =>
              /\ rows[r] # None /\ rows[r] \in RowType /\ Disabled(k)[r] \in RowType
              /\ Disabled(k)[r].count = rows[r].count
<1>1. CASE r[2] # k.mbid \/ r[1] \notin k.tracks
  BY <1>1 DEF Disabled
<1>2. CASE r[2] = k.mbid /\ r[1] \in k.tracks
  <2> DEFINE q == [rows[r] EXCEPT !.disabled = TRUE]
  <2>1. rows[r] # None /\ rows[r] \in RowType
    BY <1>2, RowIsPair, RowThere DEF TaskSound
  <2>2. q \in RowType /\ q.count = rows[r].count
    BY <2>1 DEF RowType
  <2>3. Disabled(k)[r] = q
    BY <1>2 DEF Disabled
  <2> HIDE DEF q
  <2>4. QED BY <1>2, <2>1, <2>2, <2>3
<1>3. QED BY <1>1, <1>2

\* A task commits changes to rows only that it has locked.
LEMMA CommitLocked ==
  ASSUME MergeTyped, NEW w \in Mergers, TaskSound(wk[w]), CommitFingerprint(w)
  PROVE  /\ rows' \in [Rows -> RowType \union {None}]
         /\ \A r \in Rows \ wk[w].held : rows'[r] = rows[r]
<1> DEFINE k == wk[w]
<1>1. k \in TaskType /\ k.pc = "prepared"
  BY DEF MergeTyped, CommitFingerprint
<1>2. CASE k.new = None
  <2>1. rows' = Disabled(k)
    BY <1>2 DEF CommitFingerprint
  <2>2. ASSUME NEW r \in Rows
        PROVE  /\ Disabled(k)[r] \in RowType \union {None}
               /\ r \notin k.held => Disabled(k)[r] = rows[r]
    <3>1. r[2] = k.mbid /\ r[1] \in k.tracks => r \in k.held
      BY <1>1, RowIsPair DEF TaskSound
    <3>2. rows[r] \in RowType \union {None}
      BY DEF MergeTyped
    <3>3. QED BY <1>1, <3>1, <3>2, DisabledRow
  <2>3. Disabled(k) = [r \in Rows |-> Disabled(k)[r]]
    BY DEF Disabled
  <2>4. QED BY <2>1, <2>2, <2>3
<1>3. CASE k.new # None
  <2>1. rows' = Merged(k)
    BY <1>3 DEF CommitFingerprint
  <2>2. ASSUME NEW r \in Rows
        PROVE  /\ Merged(k)[r] \in RowType \union {None}
               /\ r \notin k.held => Merged(k)[r] = rows[r]
    <3>1. PICK t \in Tracks, m \in Mbids : r = <<t, m>>
      BY RowIsPair
    <3>2. t \in k.tracks /\ m \in {k.mbid, k.new} => r \in k.held
      BY <1>1, <1>3, <3>1 DEF TaskSound
    <3>3. rows[r] \in RowType \union {None}
      BY DEF MergeTyped
    <3>4. [count |-> 0, disabled |-> TRUE, into |-> k.new] \in RowType
      BY <1>1, <1>3 DEF TaskType, RowType
    <3>5. QED BY <1>1, <1>3, <3>1, <3>2, <3>3, <3>4, MergedRow
  <2>3. Merged(k) = [r \in Rows |-> Merged(k)[r]]
    BY DEF Merged
  <2>4. QED BY <2>1, <2>2, <2>3
<1>4. QED BY <1>2, <1>3

-----------------------------------------------------------------------------
(* Types *)

\* The steps of a worker.
MergerStep(w) ==
  TaskStep(w) \/ TaskFails(w) \/ WorkerDies(w) \/ \E m \in Mbids : Dequeue(w, m)

\* A worker starts a task, goes on with it or ends it.
LEMMA TaskTyped ==
  ASSUME MergeTyped, NEW w \in Mergers, TaskSound(wk[w]), MergerStep(w)
  PROVE  wk' \in [Mergers -> TaskType]
<1>1. CASE MergeMissingMbid(w)
  BY <1>1, LookupBecomes DEF Becomes
<1>2. CASE LockRows(w)
  BY <1>2, LockRowsBecomes DEF Becomes
<1>3. CASE MergeMbids(w)
  <2>1. CASE MergeImpossible(w)
    BY <1>3, <2>1, EndTaskBecomes DEF MergeMbids, Becomes
  <2>2. CASE ~ MergeImpossible(w)
    BY <1>3, <2>2, MergeBecomes DEF Becomes
  <2>3. QED BY <2>1, <2>2
<1>4. CASE UnknownMbid(w)
  BY <1>4, EndTaskBecomes, TaskAtBecomes DEF UnknownMbid, Becomes
<1>5. CASE DisableMbid(w)
  BY <1>5, DisableBecomes DEF Becomes
<1>6. CASE Prepare(w)
  BY <1>6, TaskAtBecomes DEF Prepare, Becomes
<1>7. CASE CommitFingerprint(w)
  BY <1>7, CommitBecomes DEF Becomes
<1>8. CASE CommitIngest(w)
  BY <1>8, EndTaskBecomes DEF CommitIngest, Becomes
<1>9. CASE TaskFails(w)
  BY <1>9, EndTaskBecomes DEF TaskFails, Becomes
<1>10. CASE WorkerDies(w)
  BY <1>10, EndTaskBecomes DEF WorkerDies, Becomes
<1>11. CASE \E m \in Mbids : Dequeue(w, m)
  <2>1. CASE wk' = wk
    BY <2>1 DEF MergeTyped
  <2>2. CASE wk' # wk
    BY <1>11, <2>2, DequeueBecomes DEF Becomes
  <2>3. QED BY <2>1, <2>2
<1>12. QED
  BY <1>1, <1>2, <1>3, <1>4, <1>5, <1>6, <1>7, <1>8, <1>9, <1>10, <1>11
     DEF MergerStep, TaskStep

\* The ingest commit of a task moves sources.
LEMMA CommitIngestTyped ==
  ASSUME MergeTyped, NEW w \in Mergers, CommitIngest(w)
  PROVE  sources' \in [Rows -> Int]
<1> DEFINE k == wk[w]
           f == [r \in Rows |-> CASE r[2] = k.mbid -> sources[r] - k.moved[r[1]]
                                  [] r[2] = k.new -> sources[r] + k.moved[r[1]]
                                  [] OTHER -> sources[r]]
<1>1. k.moved \in [Tracks -> Int] /\ sources \in [Rows -> Int]
  BY DEF MergeTyped, TaskType
<1>2. ASSUME NEW r \in Rows
      PROVE  f[r] \in Int
  <2>1. k.moved[r[1]] \in Int /\ sources[r] \in Int
    BY <1>1, RowIsPair
  <2> HIDE DEF k
  <2>2. QED BY <2>1
<1>3. sources' = IF k.new = None THEN sources ELSE f
  BY DEF CommitIngest
<1> HIDE DEF k
<1>4. f \in [Rows -> Int]
  BY <1>2
<1> HIDE DEF f
<1>5. QED BY <1>1, <1>3, <1>4

\* The other variables keep their types when a worker makes a step.
LEMMA MergerTyped ==
  ASSUME MergeTyped, NEW w \in Mergers, TaskSound(wk[w]), MergerStep(w)
  PROVE  MergeTyped'
<1>1. wk' \in [Mergers -> TaskType]
  BY TaskTyped
<1>2. UNCHANGED <<musicbrainz, imp, imported>>
  BY DEF MergerStep, TaskStep, MergeMissingMbid, LockRows, MergeMbids, UnknownMbid,
         DisableMbid, Prepare, CommitFingerprint, CommitIngest, TaskFails, WorkerDies, Dequeue,
         history
<1>3. rows' \in [Rows -> RowType \union {None}]
  <2>1. CASE CommitFingerprint(w)
    BY <2>1, CommitLocked
  <2>2. CASE ~ CommitFingerprint(w)
    <3>1. rows' = rows
      BY <2>2 DEF MergerStep, TaskStep, MergeMissingMbid, LockRows, MergeMbids, UnknownMbid,
                  DisableMbid, Prepare, CommitIngest, TaskFails, WorkerDies, Dequeue
    <3>2. QED BY <3>1 DEF MergeTyped
  <2>3. QED BY <2>1, <2>2
<1>4. sources' \in [Rows -> Int]
  <2>1. CASE CommitIngest(w)
    BY <2>1, CommitIngestTyped
  <2>2. CASE ~ CommitIngest(w)
    <3>1. sources' = sources
      BY <2>2 DEF MergerStep, TaskStep, MergeMissingMbid, LockRows, MergeMbids, UnknownMbid,
                  DisableMbid, Prepare, CommitFingerprint, TaskFails, WorkerDies, Dequeue
    <3>2. QED BY <3>1 DEF MergeTyped
  <2>3. QED BY <2>1, <2>2
<1>5. unknownSince' \in [Mbids -> Nat \union {None}]
  <2>1. CASE UnknownMbid(w)
    BY <2>1 DEF UnknownMbid, MergeTyped
  <2>2. CASE ~ UnknownMbid(w)
    <3>1. unknownSince' = unknownSince
      BY <2>2 DEF MergerStep, TaskStep, MergeMissingMbid, LockRows, MergeMbids, CommitIngest,
                  DisableMbid, Prepare, CommitFingerprint, TaskFails, WorkerDies, Dequeue, redis
    <3>2. QED BY <3>1 DEF MergeTyped
  <2>3. QED BY <2>1, <2>2
<1>6. QED BY <1>1, <1>2, <1>3, <1>4, <1>5 DEF MergeTyped, musicbrainz

\* MusicBrainz and the API keep the types.
LEMMA MusicBrainzTyped ==
  ASSUME MergeTyped, MbEdit \/ Replicate \/ \E t \in Tracks : Lookup(t)
  PROVE  MergeTyped'
<1>1. CASE MbEdit
  <2>1. UNCHANGED <<day, lastKnown, rows, sources, redis, wk, imp, history>>
    BY <1>1 DEF MbEdit
  <2>2. known' \subseteq Mbids /\ redirect' \in [Mbids -> Mbids \union {None}]
        /\ returned' \subseteq Mbids
    BY <1>1 DEF MbEdit, MergeTyped
  <2>3. QED BY <2>1, <2>2 DEF MergeTyped, redis, history
<1>2. CASE Replicate
  <2>1. UNCHANGED <<known, redirect, returned, rows, sources, redis, wk, imp, history>>
    BY <1>2 DEF Replicate
  <2>2. day' \in Nat /\ lastKnown' \in [Mbids -> Nat]
    BY <1>2 DEF Replicate, MergeTyped
  <2>3. QED BY <2>1, <2>2 DEF MergeTyped, redis, history
<1>3. CASE \E t \in Tracks : Lookup(t)
  BY <1>3 DEF Lookup, MergeTyped, musicbrainz, history
<1>4. QED BY <1>1, <1>2, <1>3

\* The steps of an import and a moderator's edit.
ImportStep(i) == ImporterStep(i) \/ ImportFails(i) \/ \E r \in Rows : ImportStart(i, r)
Toggle == \E r \in Rows : ToggleTrackMbid(r)

\* Importer i goes on with the import q, all others with theirs.
Turns(i, q) ==
  /\ imp' \in [Importers -> ImportType] /\ q \in ImportType
  /\ imp'[i] = q /\ \A j \in Importers \ {i} : imp'[j] = imp[j]

\* An importer without an import.
LEMMA IdleImport ==
  NoImport \in ImportType /\ NoImport.pc = "idle" /\ NoImport.done = {} /\ NoImport.row = None
BY DEF NoImport, ImportType

\* Half an import committed, or all of it.
LEMMA EndedTurns ==
  ASSUME MergeTyped, NEW i \in Importers, NEW database \in {"fingerprint", "ingest"},
         Ended(i, database)
  PROVE  \E q \in ImportType :
           /\ Turns(i, q)
           /\ imp[i].done # {} => q = NoImport
           /\ imp[i].done = {} => q.pc = imp[i].pc /\ q.row = imp[i].row /\ q.done = {database}
<1> DEFINE half == [imp[i] EXCEPT !.done = {database}]
           q == IF imp[i].done = {} THEN half ELSE NoImport
<1>1. imp[i] \in ImportType
  BY DEF MergeTyped
<1>2. half \in ImportType /\ half.pc = imp[i].pc /\ half.row = imp[i].row
      /\ half.done = {database}
  BY <1>1 DEF ImportType
<1>3. imp' = [imp EXCEPT ![i] = q]
  BY DEF Ended
<1> HIDE DEF half
<1>4. q \in ImportType
  BY <1>2, IdleImport
<1>5. Turns(i, q)
  <2> HIDE DEF q
  <2>1. QED BY <1>3, <1>4 DEF Turns, MergeTyped
<1>6. QED BY <1>2, <1>4, <1>5

\* The statements of an import: it waits no longer than the statement timeout.
LEMMA WriteTurns ==
  ASSUME MergeTyped, NEW i \in Importers, ImportWrite(i)
  PROVE  \/ Turns(i, NoImport)
         \/ /\ ~ Locked(imp[i].row, i)
            /\ \E q \in ImportType :
                 Turns(i, q) /\ q.pc = "written" /\ q.row = imp[i].row /\ q.done = imp[i].done
<1> DEFINE q == [imp[i] EXCEPT !.pc = "written"]
<1>1. imp[i] \in ImportType
  BY DEF MergeTyped
<1>2. q \in ImportType /\ q.pc = "written" /\ q.row = imp[i].row /\ q.done = imp[i].done
  BY <1>1 DEF ImportType
<1>3. \/ imp' = [imp EXCEPT ![i] = NoImport]
      \/ imp' = [imp EXCEPT ![i] = q] /\ ~ Locked(imp[i].row, i)
  BY DEF ImportWrite
<1> HIDE DEF q
<1>4. QED BY <1>2, <1>3, IdleImport DEF Turns, MergeTyped

\* An import that starts knows its row.
LEMMA StartTurns ==
  ASSUME MergeTyped, NEW i \in Importers, NEW r \in Rows, ImportStart(i, r)
  PROVE  \E q \in ImportType : Turns(i, q) /\ q.pc = "write" /\ q.row = r /\ q.done = {}
<1> DEFINE q == [pc |-> "write", row |-> r, seen |-> rows[r] # None, done |-> {}]
<1>1. q \in ImportType /\ q.pc = "write" /\ q.row = r /\ q.done = {}
  BY DEF ImportType
<1>2. imp' = [imp EXCEPT ![i] = q]
  BY DEF ImportStart
<1> HIDE DEF q
<1>3. QED BY <1>1, <1>2 DEF Turns, MergeTyped

\* The fingerprint commit of an import counts one more submission.
LEMMA ImportCounts ==
  ASSUME MergeTyped, NEW i \in Importers, ImportSound(imp[i]), ImportCommitFingerprint(i)
  PROVE  \E r \in Rows, n \in RowType :
           /\ r = imp[i].row /\ rows' = [rows EXCEPT ![r] = n] /\ n.count = CountOf(r) + 1
           /\ imported' = [imported EXCEPT ![r[1]] = imported[r[1]] + 1]
           /\ rows[r] # None => n.disabled = rows[r].disabled /\ n.into = rows[r].into
<1> DEFINE r == imp[i].row
           more == [rows[r] EXCEPT !.count = rows[r].count + 1]
           n == IF rows[r] = None THEN NewRow(1) ELSE more
<1>1. r \in Rows
  BY DEF ImportSound, ImportCommitFingerprint
<1>2. /\ rows' = [rows EXCEPT ![r] = n]
      /\ imported' = [imported EXCEPT ![r[1]] = imported[r[1]] + 1]
  BY Zenon DEF ImportCommitFingerprint
<1>3. NewRow(1) \in RowType /\ NewRow(1).count = 1
  BY DEF NewRow, RowType
<1>4. CASE rows[r] = None
  <2>1. n = NewRow(1)
    BY <1>4
  <2> HIDE DEF n, r
  <2>2. n \in RowType /\ n.count = CountOf(r) + 1
    BY <1>3, <1>4, <2>1 DEF CountOf
  <2>3. QED BY <1>1, <1>2, <1>4, <2>2 DEF r
<1>5. CASE rows[r] # None
  <2>1. rows[r] \in RowType
    BY <1>1, <1>5, RowThere
  <2>2. more \in RowType /\ more.count = CountOf(r) + 1
        /\ more.disabled = rows[r].disabled /\ more.into = rows[r].into
    BY <1>5, <2>1 DEF RowType, CountOf
  <2>3. n = more
    BY <1>5
  <2> HIDE DEF more, n
  <2>4. QED BY <1>1, <1>2, <2>2, <2>3
<1>6. QED BY <1>4, <1>5

\* A moderator changes nothing but whether the link is disabled.
LEMMA Toggled ==
  ASSUME MergeTyped, NEW r \in Rows, ToggleTrackMbid(r)
  PROVE  \E n \in RowType :
           /\ rows[r] # None /\ rows' = [rows EXCEPT ![r] = n] /\ n.count = CountOf(r)
           /\ n.into = rows[r].into /\ n.disabled = ~ rows[r].disabled
<1> DEFINE other == ~ rows[r].disabled
           n == [rows[r] EXCEPT !.disabled = other]
<1>1. rows[r] # None /\ rows[r] \in RowType
  BY RowThere DEF ToggleTrackMbid
<1>2. rows' = [rows EXCEPT ![r] = n]
  BY Zenon DEF ToggleTrackMbid
<1>3. n \in RowType /\ n.count = rows[r].count /\ n.into = rows[r].into
      /\ n.disabled = other
  <2>1. other \in BOOLEAN
    BY <1>1 DEF RowType
  <2> HIDE DEF other
  <2>2. QED BY <1>1, <2>1 DEF RowType
<1> HIDE DEF n
<1>4. QED BY <1>1, <1>2, <1>3 DEF CountOf

\* An import keeps the types, and knows its row.
LEMMA ImportTyped ==
  ASSUME MergeTyped, NEW i \in Importers, ImportSound(imp[i]), ImportStep(i)
  PROVE  /\ MergeTyped'
         /\ \E q \in ImportType : Turns(i, q) /\ ImportSound(q)
<1>1. UNCHANGED <<musicbrainz, unknownSince, wk>>
  BY DEF ImportStep, ImporterStep, ImportWrite, ImportCommitFingerprint, ImportCommitIngest,
         ImportFails, ImportStart, redis
<1>2. \E q \in ImportType : Turns(i, q) /\ ImportSound(q)
  <2>1. CASE ImportWrite(i)
    BY <2>1, WriteTurns, IdleImport DEF ImportSound, ImportWrite
  <2>2. CASE ImportCommitFingerprint(i)
    BY <2>2, EndedTurns, IdleImport DEF ImportSound, ImportCommitFingerprint
  <2>3. CASE ImportCommitIngest(i)
    BY <2>3, EndedTurns, IdleImport DEF ImportSound, ImportCommitIngest
  <2>4. CASE ImportFails(i)
    BY <2>4, IdleImport DEF ImportSound, ImportFails, Turns, MergeTyped
  <2>5. CASE \E r \in Rows : ImportStart(i, r)
    BY <2>5, StartTurns DEF ImportSound
  <2>6. QED BY <2>1, <2>2, <2>3, <2>4, <2>5 DEF ImportStep, ImporterStep
<1>3. rows' \in [Rows -> RowType \union {None}] /\ imported' \in [Tracks -> Int]
  <2>1. CASE ImportCommitFingerprint(i)
    BY <2>1, ImportCounts, RowIsPair DEF MergeTyped
  <2>2. CASE ~ ImportCommitFingerprint(i)
    <3>1. UNCHANGED <<rows, imported>>
      BY <2>2 DEF ImportStep, ImporterStep, ImportWrite, ImportCommitIngest, ImportFails,
                  ImportStart, history
    <3>2. QED BY <3>1 DEF MergeTyped
  <2>3. QED BY <2>1, <2>2
<1>4. sources' \in [Rows -> Int]
  <2>1. CASE ImportCommitIngest(i)
    <3>1. imp[i].row \in Rows /\ sources' = [sources EXCEPT ![imp[i].row] = @ + 1]
      BY <2>1 DEF ImportCommitIngest, ImportSound
    <3>2. QED BY <3>1 DEF MergeTyped
  <2>2. CASE ~ ImportCommitIngest(i)
    <3>1. sources' = sources
      BY <2>2 DEF ImportStep, ImporterStep, ImportWrite, ImportCommitFingerprint, ImportFails,
                  ImportStart
    <3>2. QED BY <3>1 DEF MergeTyped
  <2>3. QED BY <2>1, <2>2
<1>5. MergeTyped'
  BY <1>1, <1>2, <1>3, <1>4 DEF MergeTyped, musicbrainz, Turns
<1>6. QED BY <1>2, <1>5

\* A moderator keeps the types.
LEMMA ToggleTyped ==
  ASSUME MergeTyped, NEW r \in Rows, ToggleTrackMbid(r)
  PROVE  MergeTyped'
<1>1. rows' \in [Rows -> RowType \union {None}]
  BY Toggled DEF MergeTyped
<1>2. UNCHANGED <<musicbrainz, sources, redis, wk, imp, imported>>
  BY DEF ToggleTrackMbid, history
<1>3. QED BY <1>1, <1>2 DEF MergeTyped, musicbrainz, redis

-----------------------------------------------------------------------------
(* What tasks know of their rows *)

\* A task that goes on as before, whose rows are as before, knows what it knew.
LEMMA Framed ==
  ASSUME NEW v \in Mergers, TaskSound(wk[v]), wk'[v] = wk[v],
         \A r \in wk[v].held : rows'[r] = rows[r]
  PROVE  TaskSound(wk[v])'
BY DEF TaskSound

\* A task has locked the rows whose tracks it has noted.
LEMMA TracksLocked ==
  ASSUME NEW m \in Mbids, NEW t \in TracksOf(m)
  PROVE  t \in Tracks /\ <<t, m>> \in RowsOf(m) /\ rows[<<t, m>>] # None
<1>1. PICK r \in RowsOf(m) : t = r[1]
  BY DEF TracksOf
<1>2. r = <<t, m>>
  BY <1>1, RowIsPair DEF RowsOf
<1>3. QED BY <1>1, <1>2, RowIsPair DEF RowsOf

\* The task that makes a step knows what it has to of the rows it locks.
LEMMA StepSound ==
  ASSUME MergeTyped, RedirectsSound, NEW w \in Mergers, TaskSound(wk[w]), MergerStep(w)
  PROVE  TaskSound(wk[w])'
<1>1. CASE ~ CommitFingerprint(w)
  <2>1. rows' = rows
    BY <1>1 DEF MergerStep, TaskStep, MergeMissingMbid, LockRows, MergeMbids, UnknownMbid,
                DisableMbid, Prepare, CommitIngest, TaskFails, WorkerDies, Dequeue
  <2>2. CASE wk' = wk
    BY <2>1, <2>2 DEF TaskSound
  <2>3. CASE Becomes(w, Idle)
    BY <2>3, IdleTask DEF TaskSound, Becomes
  <2>4. CASE MergeMissingMbid(w)
    <3>1. wk[w].mbid \in Mbids /\ wk[w].new = None
      BY <2>4 DEF TaskSound, MergeMissingMbid
    <3>2. CASE Becomes(w, At(wk[w], "unknown"))
      <4>1. wk'[w].pc = "unknown" /\ wk'[w].mbid = wk[w].mbid /\ wk'[w].new = wk[w].new
        BY <3>2, TaskAtPc DEF Becomes, MergeTyped
      <4>2. wk[w].mbid # None
        BY <3>1, MergeAssumption
      <4>3. QED BY <3>1, <4>1, <4>2 DEF TaskSound
    <3>5. CASE Becomes(w, At(wk[w], "done")) /\ wk[w].tracks = {}
      <4>1. /\ wk'[w].pc = "done" /\ wk'[w].mbid = wk[w].mbid /\ wk'[w].new = wk[w].new
            /\ wk'[w].tracks = {}
        BY <3>5, TaskAtPc DEF Becomes, MergeTyped
      <4>2. wk[w].mbid # None
        BY <3>1, MergeAssumption
      <4>3. QED BY <3>1, <4>1, <4>2 DEF TaskSound
    <3>3. CASE redirect[wk[w].mbid] # None
      <4>1. CASE \E k \in TaskType :
                   /\ Becomes(w, k) /\ k.pc = "target" /\ k.mbid = wk[w].mbid
                   /\ k.new = redirect[wk[w].mbid] /\ k.moved = wk[w].moved
                   /\ k.held = wk[w].held
        <5>1. redirect[wk[w].mbid] # wk[w].mbid
          BY <3>1, <3>3 DEF RedirectsSound
        <5>2. QED BY <3>1, <3>3, <4>1, <5>1 DEF TaskSound, Becomes
      <4>2. QED BY <2>4, <3>2, <3>5, <4>1, LookupBecomes
    <3>4. QED BY <2>4, <3>2, <3>3, <3>5, LookupBecomes
  <2>5. CASE LockRows(w)
    <3>1. PICK k \in TaskType :
            /\ Becomes(w, k) /\ k.pc = "merge" /\ k.mbid = wk[w].mbid /\ k.new = wk[w].new
            /\ k.seen = TracksOf(wk[w].new) /\ k.tracks = TracksOf(wk[w].mbid)
            /\ k.held = RowsOf(wk[w].new) \union RowsOf(wk[w].mbid)
      BY <2>5, LockRowsBecomes
    <3>2. k.mbid \in Mbids /\ k.new \in Mbids /\ k.new # None /\ k.new # k.mbid
      BY <2>5, <3>1 DEF TaskSound, LockRows, TaskType
    <3>3. /\ \A t \in k.tracks : <<t, k.mbid>> \in k.held /\ rows[<<t, k.mbid>>] # None
          /\ \A t \in k.seen : <<t, k.new>> \in k.held /\ rows[<<t, k.new>>] # None
      BY <3>1, <3>2, TracksLocked
    <3>4. wk'[w] = k
      BY <3>1 DEF Becomes
    <3>5. QED BY <2>1, <3>1, <3>2, <3>3, <3>4 DEF TaskSound
  <2>6. CASE MergeMbids(w) /\ ~ MergeImpossible(w)
    <3>1. PICK k \in TaskType :
            /\ Becomes(w, k) /\ k.pc = "done" /\ k.mbid = wk[w].mbid /\ k.new = wk[w].new
            /\ k.seen = wk[w].seen /\ k.tracks = wk[w].tracks
            /\ k.held = wk[w].held \union (wk[w].tracks \X {wk[w].new})
      BY <2>6, MergeBecomes
    <3>2. wk[w].pc = "merge"
      BY <2>6 DEF MergeMbids
    <3>3. \A t \in k.tracks : <<t, k.new>> \in k.held /\ (t \in k.seen <=> rows[<<t, k.new>>] # None)
      BY <2>6, <3>1, <3>2 DEF TaskSound, MergeImpossible
    <3>4. wk'[w] = k
      BY <3>1 DEF Becomes
    <3>5. k.mbid \in Mbids /\ k.new # k.mbid
          /\ \A t \in k.tracks : <<t, k.mbid>> \in k.held /\ rows[<<t, k.mbid>>] # None
      BY <3>1, <3>2 DEF TaskSound
    <3>6. QED BY <2>1, <3>1, <3>3, <3>4, <3>5 DEF TaskSound
  <2>7. CASE UnknownMbid(w) /\ Becomes(w, At(wk[w], "disable"))
    BY <2>7, TaskAtPc DEF UnknownMbid, TaskSound, Becomes, MergeTyped
  <2>8. CASE DisableMbid(w)
    <3>1. PICK k \in TaskType :
            /\ Becomes(w, k) /\ k.pc = "done" /\ k.mbid = wk[w].mbid /\ k.new = wk[w].new
            /\ k.tracks = TracksOf(wk[w].mbid) /\ k.held = RowsOf(wk[w].mbid)
      BY <2>8, DisableBecomes
    <3>2. k.mbid \in Mbids /\ k.new = None /\ k.new # k.mbid
      BY <2>8, <3>1 DEF TaskSound, DisableMbid
    <3>3. \A t \in k.tracks : <<t, k.mbid>> \in k.held /\ rows[<<t, k.mbid>>] # None
      BY <3>1, <3>2, TracksLocked
    <3>4. wk'[w] = k
      BY <3>1 DEF Becomes
    <3>5. QED BY <2>1, <3>1, <3>2, <3>3, <3>4 DEF TaskSound
  <2>9. CASE Prepare(w)
    BY <2>1, <2>9, TaskAtPc, TaskAtBecomes DEF Prepare, TaskSound, Becomes, MergeTyped
  <2>10. CASE \E m \in Mbids : Dequeue(w, m) /\ wk' # wk
    <3>1. PICK m \in Mbids : Dequeue(w, m) /\ wk' # wk
      BY <2>10
    <3>2. PICK k \in TaskType : /\ Becomes(w, k) /\ k.pc = "lookup" /\ k.mbid = m /\ k.new = None
                               /\ k.tracks = {}
      BY <3>1, DequeueBecomes
    <3>3. m # None
      BY MergeAssumption
    <3>4. QED BY <3>2, <3>3 DEF TaskSound, Becomes
  <2>11. (MergeMbids(w) /\ MergeImpossible(w)) \/ CommitIngest(w) \/ TaskFails(w) \/ WorkerDies(w)
           => Becomes(w, Idle)
    BY EndTaskBecomes DEF MergeMbids, CommitIngest, TaskFails, WorkerDies
  <2>12. UnknownMbid(w) => Becomes(w, Idle) \/ Becomes(w, At(wk[w], "disable"))
    BY EndTaskBecomes, TaskAtBecomes DEF UnknownMbid
  <2>13. QED
    BY <1>1, <2>2, <2>3, <2>4, <2>5, <2>6, <2>7, <2>8, <2>9, <2>10, <2>11, <2>12
       DEF MergerStep, TaskStep
<1>2. CASE CommitFingerprint(w)
  BY <1>2, CommitBecomes DEF CommitFingerprint, TaskSound, Becomes
<1>3. QED BY <1>1, <1>2

\* The other tasks are not disturbed: their rows are locked.
LEMMA TasksSoundStep ==
  ASSUME MergeTyped, RedirectsSound, RowsExclusive, NEW w \in Mergers,
         \A v \in Mergers : TaskSound(wk[v]), MergerStep(w)
  PROVE  \A v \in Mergers : TaskSound(wk[v])'
<1>1. ASSUME NEW v \in Mergers, v # w
      PROVE  TaskSound(wk[v])'
  <2>1. wk'[v] = wk[v]
    BY <1>1 DEF MergerStep, TaskStep, MergeMissingMbid, LockRows, MergeMbids, UnknownMbid,
                DisableMbid, Prepare, CommitFingerprint, CommitIngest, TaskFails, WorkerDies,
                Dequeue, TaskAt, EndTask, MergeTyped
  <2>2. wk[v].held \subseteq Rows
    BY DEF MergeTyped, TaskType
  <2>3. \A r \in wk[v].held : rows'[r] = rows[r]
    <3>1. CASE CommitFingerprint(w)
      BY <1>1, <2>2, <3>1, CommitLocked DEF RowsExclusive
    <3>2. CASE ~ CommitFingerprint(w)
      BY <3>2 DEF MergerStep, TaskStep, MergeMissingMbid, LockRows, MergeMbids, UnknownMbid,
                  DisableMbid, Prepare, CommitIngest, TaskFails, WorkerDies, Dequeue
    <3>3. QED BY <3>1, <3>2
  <2>4. QED BY <2>1, <2>3, Framed
<1>2. QED BY <1>1, StepSound

-----------------------------------------------------------------------------
(* Row locks *)

\* What becomes of the locks of a worker that makes a step.
HeldStep(w) ==
  \/ wk'[w].held \subseteq wk[w].held
  \/ /\ \A r \in wk'[w].held \ wk[w].held : ~ Locked(r, w)
     /\ imp' = imp

\* A worker locks rows only that no other transaction has locked.
LEMMA LocksFree ==
  ASSUME MergeTyped, NEW w \in Mergers, TaskSound(wk[w]), MergerStep(w)
  PROVE  HeldStep(w)
<1>0. wk[w] \in TaskType
  BY DEF MergeTyped
<1>1. CASE LockRows(w)
  BY <1>1, LockRowsBecomes DEF LockRows, HeldStep, Becomes
<1>2. CASE MergeMbids(w) /\ ~ MergeImpossible(w)
  <2>1. PICK k \in TaskType :
          /\ Becomes(w, k) /\ k.held = wk[w].held \union (wk[w].tracks \X {wk[w].new})
    BY <1>2, MergeBecomes
  <2>2. wk'[w].held = wk[w].held \union (wk[w].tracks \X {wk[w].new})
    BY <2>1 DEF Becomes
  <2>3. ASSUME NEW r \in wk[w].tracks \X {wk[w].new}, r \notin wk[w].held
        PROVE  ~ Locked(r, w)
    <3>1. PICK t \in wk[w].tracks : r = <<t, wk[w].new>>
      OBVIOUS
    <3>2. t \notin wk[w].seen
      BY <1>0, <1>2, <2>3, <3>1 DEF TaskSound, MergeMbids
    <3>3. QED BY <1>2, <3>1, <3>2 DEF MergeMbids
  <2>4. imp' = imp
    BY <1>2 DEF MergeMbids
  <2>5. QED BY <2>2, <2>3, <2>4 DEF HeldStep
<1>3. CASE DisableMbid(w)
  <2>1. wk'[w].held = RowsOf(wk[w].mbid)
    BY <1>3, DisableBecomes DEF Becomes
  <2>2. \A r \in RowsOf(wk[w].mbid) : ~ Locked(r, w)
    BY <1>3 DEF DisableMbid
  <2>3. imp' = imp
    BY <1>3 DEF DisableMbid
  <2>4. QED BY <2>1, <2>2, <2>3 DEF HeldStep
<1>4. CASE Becomes(w, Idle)
  <2>1. wk'[w].held = {}
    BY <1>4, IdleTask DEF Becomes
  <2>2. QED BY <2>1 DEF HeldStep
<1>5. CASE MergeMissingMbid(w)
  BY <1>0, <1>4, <1>5, LookupBecomes, TaskAtPc DEF HeldStep, Becomes
<1>6. CASE UnknownMbid(w) \/ Prepare(w)
  BY <1>0, <1>4, <1>6, TaskAtPc, TaskAtBecomes, EndTaskBecomes
     DEF UnknownMbid, Prepare, HeldStep, Becomes
<1>7. CASE CommitFingerprint(w)
  BY <1>7, CommitBecomes DEF HeldStep, Becomes
<1>8. CASE \E m \in Mbids : Dequeue(w, m)
  <2>1. CASE wk' = wk
    BY <2>1 DEF HeldStep
  <2>2. CASE wk' # wk
    BY <1>8, <2>2, DequeueBecomes DEF HeldStep, Becomes
  <2>3. QED BY <2>1, <2>2
<1>9. (MergeMbids(w) /\ MergeImpossible(w)) \/ CommitIngest(w) \/ TaskFails(w) \/ WorkerDies(w)
        => Becomes(w, Idle)
  BY EndTaskBecomes DEF MergeMbids, CommitIngest, TaskFails, WorkerDies
<1>10. QED
  BY <1>1, <1>2, <1>3, <1>4, <1>5, <1>6, <1>7, <1>8, <1>9 DEF MergerStep, TaskStep

\* The tasks of the other workers stay as they are.
LEMMA OthersStay ==
  ASSUME MergeTyped, NEW w \in Mergers, MergerStep(w), NEW v \in Mergers \ {w}
  PROVE  wk'[v] = wk[v]
BY DEF MergerStep, TaskStep, MergeMissingMbid, LockRows, MergeMbids, UnknownMbid,
       DisableMbid, Prepare, CommitFingerprint, CommitIngest, TaskFails, WorkerDies,
       Dequeue, TaskAt, EndTask, MergeTyped

\* Two workers never hold the same row.
LEMMA ExclusiveMerger ==
  ASSUME MergeTyped, NEW w \in Mergers, TaskSound(wk[w]), RowsExclusive, MergerStep(w)
  PROVE  RowsExclusive'
<1>1. HeldStep(w)
  BY LocksFree
<1>2. imp' = imp
  BY MergerTyped DEF MergerStep, TaskStep, MergeMissingMbid, LockRows, MergeMbids, UnknownMbid,
       DisableMbid, Prepare, CommitFingerprint, CommitIngest, TaskFails, WorkerDies, Dequeue
<1>3. ASSUME NEW v \in Mergers \ {w}
      PROVE  wk'[v].held = wk[v].held /\ wk'[v].held \intersect wk'[w].held = {}
  <2>1. wk'[v] = wk[v]
    BY OthersStay
  <2>2. wk[v].held \intersect wk[w].held = {}
    BY DEF RowsExclusive
  <2>3. \A r \in wk'[w].held : r \in wk[w].held \/ r \notin wk[v].held
    BY <1>1 DEF HeldStep, Locked
  <2>4. QED BY <2>1, <2>2, <2>3
<1>4. ASSUME NEW i \in Importers, imp[i].pc = "written", "fingerprint" \notin imp[i].done
      PROVE  imp[i].row \notin wk'[w].held
  <2>1. w # i
    BY MergeAssumption
  <2>2. QED BY <1>1, <1>4, <2>1, MergeAssumption DEF HeldStep, Locked, RowsExclusive
<1>5. QED BY <1>2, <1>3, <1>4 DEF RowsExclusive

\* An importer writes rows only that no worker holds.
LEMMA ExclusiveImport ==
  ASSUME MergeTyped, NEW i \in Importers, RowsExclusive, ImportStep(i)
  PROVE  RowsExclusive'
<1>1. wk' = wk
  BY DEF ImportStep, ImporterStep, ImportWrite, ImportCommitFingerprint, ImportCommitIngest,
         ImportFails, ImportStart
<1>2. \E q \in ImportType :
        /\ Turns(i, q)
        /\ q.pc = "written" /\ "fingerprint" \notin q.done =>
             \/ ~ Locked(q.row, i)
             \/ imp[i].pc = "written" /\ "fingerprint" \notin imp[i].done /\ q.row = imp[i].row
  <2>1. CASE ImportWrite(i)
    BY <2>1, WriteTurns, IdleImport
  <2>2. CASE ImportCommitFingerprint(i)
    BY <2>2, EndedTurns, IdleImport DEF ImportCommitFingerprint
  <2>3. CASE ImportCommitIngest(i)
    BY <2>3, EndedTurns, IdleImport DEF ImportCommitIngest
  <2>4. CASE ImportFails(i)
    BY <2>4, IdleImport DEF ImportFails, Turns, MergeTyped
  <2>5. CASE \E r \in Rows : ImportStart(i, r)
    BY <2>5, StartTurns
  <2>6. QED BY <2>1, <2>2, <2>3, <2>4, <2>5 DEF ImportStep, ImporterStep
<1>3. ASSUME NEW j \in Importers, NEW w \in Mergers,
             imp'[j].pc = "written", "fingerprint" \notin imp'[j].done
      PROVE  imp'[j].row \notin wk[w].held
  <2>1. w # i
    BY MergeAssumption
  <2>2. CASE j # i
    BY <1>2, <1>3, <2>2 DEF Turns, RowsExclusive
  <2>3. CASE j = i
    BY <1>2, <1>3, <2>1, <2>3 DEF Turns, RowsExclusive, Locked
  <2>4. QED BY <2>2, <2>3
<1>4. QED BY <1>1, <1>3 DEF RowsExclusive

-----------------------------------------------------------------------------
(* Counts *)

\* The counts of a track's MBIDs, and what they add up to.
Counts(t) == [m \in Mbids |-> CountOf(<<t, m>>)]
Total(t) == SumFunctionOnSet(Counts(t), Mbids)

\* Each of them is a number.
LEMMA CountsTyped ==
  ASSUME MergeTyped, NEW t \in Tracks, NEW m \in Mbids
  PROVE  Counts(t)[m] = CountOf(<<t, m>>) /\ CountOf(<<t, m>>) \in Int
BY RowIsPair, RowThere DEF Counts

\* They are after a step, too.
LEMMA NextTyped ==
  ASSUME MergeTyped', NEW r \in Rows
  PROVE  CountOf(r)' \in Int /\ (rows'[r] \in RowType => rows'[r] # None)
BY MergeAssumption DEF MergeTyped, RowType, CountOf

\* The total depends on the counts only.
LEMMA TotalSame ==
  ASSUME NEW t \in Tracks, \A m \in Mbids : CountOf(<<t, m>>)' = CountOf(<<t, m>>)
  PROVE  Total(t)' = Total(t)
<1>1. \A m \in Mbids : Counts(t)'[m] = Counts(t)[m]
  BY DEF Counts
<1>2. IsFiniteSet(Mbids)
  BY MergeAssumption
<1>3. SumFunctionOnSet(Counts(t)', Mbids) = SumFunctionOnSet(Counts(t), Mbids)
  BY <1>1, <1>2, SumSame
<1>4. QED BY <1>3 DEF Total

\* One count changes: the total changes by as much.
LEMMA TotalChanged ==
  ASSUME MergeTyped, MergeTyped', NEW t \in Tracks, NEW m \in Mbids,
         \A n \in Mbids \ {m} : CountOf(<<t, n>>)' = CountOf(<<t, n>>)
  PROVE  Total(t)' = Total(t) + CountOf(<<t, m>>)' - CountOf(<<t, m>>)
<1> DEFINE f == Counts(t)
           g == Counts(t)'
<1>1. \A n \in Mbids : f[n] \in Int /\ g[n] \in Int
  BY RowIsPair, RowThere, NextTyped DEF Counts
<1>2. \A n \in Mbids \ {m} : f[n] = g[n]
  BY DEF Counts
<1>3. f[m] = CountOf(<<t, m>>) /\ g[m] = CountOf(<<t, m>>)'
  BY DEF Counts
<1>4. IsFiniteSet(Mbids)
  BY MergeAssumption
<1> HIDE DEF f, g
<1>5. SumFunctionOnSet(g, Mbids) = SumFunctionOnSet(f, Mbids) + g[m] - f[m]
  BY <1>1, <1>2, <1>4, SumChanged
<1>6. QED BY <1>3, <1>5 DEF Total, f, g

\* Two counts change, and what one loses the other gains: the total stays.
LEMMA TotalMoved ==
  ASSUME MergeTyped, MergeTyped', NEW t \in Tracks, NEW a \in Mbids, NEW b \in Mbids, a # b,
         CountOf(<<t, a>>)' = 0, CountOf(<<t, b>>)' = CountOf(<<t, b>>) + CountOf(<<t, a>>),
         \A n \in Mbids \ {a, b} : CountOf(<<t, n>>)' = CountOf(<<t, n>>)
  PROVE  Total(t)' = Total(t)
<1> DEFINE f == Counts(t)
           g == Counts(t)'
<1>1. \A n \in Mbids : f[n] \in Int /\ g[n] \in Int
  BY RowIsPair, RowThere, NextTyped DEF Counts
<1>2. \A n \in Mbids \ {a, b} : f[n] = g[n]
  BY DEF Counts
<1>3. g[a] = 0 /\ g[b] = f[b] + f[a]
  BY DEF Counts
<1>4. IsFiniteSet(Mbids)
  BY MergeAssumption
<1> HIDE DEF f, g
<1>5. SumFunctionOnSet(g, Mbids) =
        SumFunctionOnSet(f, Mbids) + (g[a] - f[a]) + (g[b] - f[b])
  BY <1>1, <1>2, <1>4, SumChangedTwice
<1>6. SumFunctionOnSet(f, Mbids) \in Int
  BY <1>1, <1>4, SumInt
<1>7. SumFunctionOnSet(g, Mbids) = SumFunctionOnSet(f, Mbids)
  BY <1>1, <1>3, <1>5, <1>6
<1>8. QED BY <1>7 DEF Total, f, g

\* A commit changes counts only when it merges, and then of two rows of a track.
LEMMA CommitRows ==
  ASSUME MergeTyped, MergeTyped', NEW w \in Mergers, NEW k \in TaskType, k = wk[w],
         TaskSound(k), CommitFingerprint(w), NEW t \in Tracks
  PROVE  /\ k.new = None \/ t \notin k.tracks =>
              \A m \in Mbids : CountOf(<<t, m>>)' = CountOf(<<t, m>>)
         /\ k.new # None /\ t \in k.tracks =>
              \A a, b \in Mbids : a = k.mbid /\ b = k.new =>
                /\ a # b
                /\ CountOf(<<t, a>>)' = 0
                /\ CountOf(<<t, b>>)' = CountOf(<<t, b>>) + CountOf(<<t, a>>)
                /\ \A m \in Mbids \ {a, b} : CountOf(<<t, m>>)' = CountOf(<<t, m>>)
<1>1. k.pc = "prepared" /\ k.mbid \in Mbids /\ k.new # k.mbid
  BY DEF CommitFingerprint, TaskSound
<1>2. CASE k.new = None
  <2>1. ASSUME NEW r \in Rows
        PROVE  CountOf(r)' = CountOf(r)
    <3>1. rows'[r] = Disabled(k)[r]
      BY <1>2 DEF CommitFingerprint
    <3>2. CASE r[2] # k.mbid \/ r[1] \notin k.tracks
      BY <1>1, <3>1, <3>2, DisabledRow DEF CountOf
    <3>3. CASE r[2] = k.mbid /\ r[1] \in k.tracks
      <4>1. rows[r] # None /\ rows'[r] \in RowType /\ rows'[r].count = rows[r].count
        BY <1>1, <3>1, <3>3, DisabledRow
      <4>2. rows'[r] # None
        BY <4>1, NextTyped
      <4>3. QED BY <4>1, <4>2 DEF CountOf
    <3>4. QED BY <3>2, <3>3
  <2>2. \A m \in Mbids : CountOf(<<t, m>>)' = CountOf(<<t, m>>)
    BY <2>1, RowIsPair
  <2>3. QED BY <1>2, <2>2
<1>3. CASE k.new # None /\ t \notin k.tracks
  <2>1. \A m \in Mbids : rows'[<<t, m>>] = rows[<<t, m>>]
    BY <1>1, <1>3, MergedRow DEF CommitFingerprint
  <2>2. QED BY <1>3, <2>1 DEF CountOf
<1>4. CASE k.new # None /\ t \in k.tracks
  <2>1. rows' = Merged(k)
    BY <1>4 DEF CommitFingerprint
  <2>2. SUFFICES ASSUME NEW a \in Mbids, NEW b \in Mbids, a = k.mbid, b = k.new
                 PROVE  /\ a # b
                        /\ CountOf(<<t, a>>)' = 0
                        /\ CountOf(<<t, b>>)' = CountOf(<<t, b>>) + CountOf(<<t, a>>)
                        /\ \A m \in Mbids \ {a, b} : CountOf(<<t, m>>)' = CountOf(<<t, m>>)
    BY <1>4
  <2>3. \A m \in Mbids \ {a, b} : CountOf(<<t, m>>)' = CountOf(<<t, m>>)
    <3>1. ASSUME NEW m \in Mbids \ {a, b}
          PROVE  rows'[<<t, m>>] = rows[<<t, m>>]
      <4>1. m \in Mbids /\ m \notin {k.mbid, k.new}
        BY <2>2
      <4>2. Merged(k)[<<t, m>>] = rows[<<t, m>>]
        BY <1>1, <1>4, <4>1, MergedRow
      <4>3. QED BY <2>1, <4>2
    <3>2. QED BY <3>1 DEF CountOf
  <2>4. CountOf(<<t, a>>)' = 0
    <3>1. rows'[<<t, a>>] = [count |-> 0, disabled |-> TRUE, into |-> b]
      BY <1>1, <1>4, <2>1, <2>2, MergedRow
    <3>2. QED BY <3>1 DEF CountOf
  <2>5. CountOf(<<t, b>>)' = CountOf(<<t, b>>) + CountOf(<<t, a>>)
    <3>1. rows'[<<t, b>>] \in RowType
          /\ rows'[<<t, b>>].count = CountOf(<<t, b>>) + CountOf(<<t, a>>)
      BY <1>1, <1>4, <2>1, <2>2, MergedRow
    <3>2. rows'[<<t, b>>] # None
      BY <3>1, RowIsPair, NextTyped
    <3>3. QED BY <3>1, <3>2 DEF CountOf
  <2>6. QED BY <1>1, <2>2, <2>3, <2>4, <2>5
<1>5. QED BY <1>2, <1>3, <1>4

\* The commit of a task keeps the total of every track.
LEMMA CommitCounts ==
  ASSUME MergeTyped, MergeTyped', NEW w \in Mergers, TaskSound(wk[w]), CommitFingerprint(w),
         NEW t \in Tracks
  PROVE  Total(t)' = Total(t)
<1>1. PICK k \in TaskType : k = wk[w]
  BY DEF MergeTyped
<1>2. TaskSound(k)
  BY <1>1
<1>3. CASE k.new = None \/ t \notin k.tracks
  BY <1>1, <1>2, <1>3, CommitRows, TotalSame
<1>4. CASE k.new # None /\ t \in k.tracks
  <2>1. PICK a \in Mbids, b \in Mbids : a = k.mbid /\ b = k.new
    BY <1>1, <1>2, <1>4 DEF TaskType, TaskSound, CommitFingerprint
  <2>2. /\ a # b
        /\ CountOf(<<t, a>>)' = 0
        /\ CountOf(<<t, b>>)' = CountOf(<<t, b>>) + CountOf(<<t, a>>)
        /\ \A m \in Mbids \ {a, b} : CountOf(<<t, m>>)' = CountOf(<<t, m>>)
    BY <1>1, <1>2, <1>4, <2>1, CommitRows
  <2>3. QED BY <2>2, TotalMoved
<1>5. QED BY <1>3, <1>4

\* The invariant of the counts, in terms of the totals.
LEMMA Conserved == CountsConserved <=> \A t \in Tracks : Total(t) = imported[t]
BY DEF CountsConserved, Total, Counts

\* The same after a step.
LEMMA NextConserved == CountsConserved' <=> \A t \in Tracks : Total(t)' = imported'[t]
BY DEF CountsConserved, Total, Counts

\* No step of a worker changes a total or makes an import.
LEMMA ConservedMerger ==
  ASSUME MergeTyped, MergeTyped', CountsConserved, NEW w \in Mergers, TaskSound(wk[w]),
         MergerStep(w)
  PROVE  CountsConserved'
<1>1. CASE CommitFingerprint(w)
  <2>1. imported' = imported
    BY <1>1 DEF CommitFingerprint
  <2>2. QED BY <1>1, <2>1, CommitCounts, Conserved, NextConserved
<1>2. CASE ~ CommitFingerprint(w)
  <2>1. rows' = rows /\ imported' = imported
    BY <1>2 DEF MergerStep, TaskStep, MergeMissingMbid, LockRows, MergeMbids, UnknownMbid,
                DisableMbid, Prepare, CommitIngest, TaskFails, WorkerDies, Dequeue, history
  <2>2. QED BY <2>1 DEF CountsConserved, CountOf
<1>3. QED BY <1>1, <1>2

\* An import adds one to the count of its row and to the imports of its track.
LEMMA ConservedImport ==
  ASSUME MergeTyped, MergeTyped', CountsConserved, NEW i \in Importers, ImportSound(imp[i]),
         ImportStep(i)
  PROVE  CountsConserved'
<1>1. CASE ImportCommitFingerprint(i)
  <2>1. PICK r \in Rows, n \in RowType :
          /\ rows' = [rows EXCEPT ![r] = n] /\ n.count = CountOf(r) + 1
          /\ imported' = [imported EXCEPT ![r[1]] = imported[r[1]] + 1]
    BY <1>1, ImportCounts
  <2>2. PICK t \in Tracks, m \in Mbids : r = <<t, m>>
    BY RowIsPair
  <2>3. rows'[r] = n /\ \A s \in Rows \ {r} : rows'[s] = rows[s]
    BY <2>1 DEF MergeTyped
  <2>4. ASSUME NEW u \in Tracks
        PROVE  Total(u)' = imported'[u]
    <3>1. \A q \in Mbids : <<u, q>> \in Rows /\ (<<u, q>> = r <=> u = t /\ q = m)
      BY <2>2, RowIsPair
    <3>2. CASE u # t
      <4>1. \A q \in Mbids : CountOf(<<u, q>>)' = CountOf(<<u, q>>)
        BY <2>3, <3>1, <3>2 DEF CountOf
      <4>2. imported'[u] = imported[u]
        BY <2>1, <2>2, <3>2 DEF MergeTyped
      <4>3. QED BY <4>1, <4>2, TotalSame, Conserved
    <3>3. CASE u = t
      <4>1. \A q \in Mbids \ {m} : CountOf(<<t, q>>)' = CountOf(<<t, q>>)
        BY <2>3, <3>1, <3>3 DEF CountOf
      <4>2. CountOf(<<t, m>>)' = CountOf(<<t, m>>) + 1
        <5>1. rows'[<<t, m>>] = n /\ n # None
          BY <2>1, <2>2, <2>3, MergeAssumption
        <5>2. QED BY <2>1, <2>2, <5>1 DEF CountOf
      <4>3. Total(t)' = Total(t) + CountOf(<<t, m>>)' - CountOf(<<t, m>>)
        BY <4>1, TotalChanged
      <4>4. imported'[t] = imported[t] + 1 /\ imported[t] \in Int
        BY <2>1, <2>2 DEF MergeTyped
      <4>5. CountOf(<<t, m>>) \in Int /\ Total(t) = imported[t]
        BY RowIsPair, RowThere, Conserved
      <4>6. QED BY <3>3, <4>2, <4>3, <4>4, <4>5
    <3>4. QED BY <3>2, <3>3
  <2>5. QED BY <2>4, NextConserved
<1>2. CASE ~ ImportCommitFingerprint(i)
  <2>1. rows' = rows /\ imported' = imported
    BY <1>2 DEF ImportStep, ImporterStep, ImportWrite, ImportCommitIngest, ImportFails,
                ImportStart, history
  <2>2. QED BY <2>1 DEF CountsConserved, CountOf
<1>3. QED BY <1>1, <1>2

\* A moderator changes no count.
LEMMA ConservedToggle ==
  ASSUME MergeTyped, CountsConserved, NEW r \in Rows, ToggleTrackMbid(r)
  PROVE  CountsConserved'
<1>1. PICK n \in RowType :
        rows[r] # None /\ rows' = [rows EXCEPT ![r] = n] /\ n.count = CountOf(r)
  BY Toggled
<1>2. ASSUME NEW s \in Rows
      PROVE  CountOf(s)' = CountOf(s)
  <2>1. rows'[s] = IF s = r THEN n ELSE rows[s]
    BY <1>1 DEF MergeTyped
  <2>2. n # None
    BY MergeAssumption
  <2>3. QED BY <1>1, <2>1, <2>2 DEF CountOf
<1>3. imported' = imported
  BY DEF ToggleTrackMbid, history
<1>4. \A t \in Tracks : Total(t)' = Total(t)
  BY <1>2, RowIsPair, TotalSame
<1>5. QED BY <1>3, <1>4, Conserved, NextConserved

\* At the start every row counts the one submission it stands for.
LEMMA ConservedInit ==
  ASSUME MergeInit
  PROVE  CountsConserved
<1>1. ASSUME NEW t \in Tracks
      PROVE  Total(t) = imported[t]
  <2> DEFINE there == {m \in Mbids : <<t, m>> \in Linked}
             f == Counts(t)
  <2>1. ASSUME NEW m \in Mbids
        PROVE  f[m] = IF m \in there THEN 1 ELSE 0
    <3>1. rows[<<t, m>>] = IF <<t, m>> \in Linked THEN NewRow(1) ELSE None
      BY RowIsPair DEF MergeInit
    <3>2. NewRow(1) \in RowType /\ NewRow(1).count = 1
      BY DEF NewRow, RowType
    <3>3. NewRow(1) # None
      BY <3>2, MergeAssumption
    <3>4. QED BY <3>1, <3>2, <3>3 DEF Counts, CountOf
  <2>2. imported[t] = Cardinality(there)
    BY DEF MergeInit
  <2>3. IsFiniteSet(Mbids) /\ there \subseteq Mbids
    BY MergeAssumption
  <2> HIDE DEF there, f
  <2>4. SumFunctionOnSet(f, Mbids) = Cardinality(there)
    BY <2>1, <2>3, SumOnes
  <2>5. QED BY <2>2, <2>4 DEF Total, f
<1>2. QED BY <1>1, Conserved

-----------------------------------------------------------------------------
(* The week of grace *)

\* MusicBrainz does not know m, or m has come back once.
Gone(m) == m \in returned \/ ~ Exists(m)

\* No MBID has been unknown for longer than since the date in Redis says.
KeysKept ==
  \A m \in Mbids :
    /\ lastKnown[m] <= day
    /\ unknownSince[m] # None =>
         m \in returned \/ (~ Exists(m) /\ lastKnown[m] <= unknownSince[m])

\* Task k is about to commit rows that are disabled.
Disables(k) == k.pc \in {"done", "prepared"} /\ k.new = None /\ k.tracks # {}

\* What task k has found out about its MBID.
TaskGrace(k) ==
  /\ k.pc = "unknown" => Gone(k.mbid)
  /\ k.pc = "disable" \/ Disables(k) =>
       k.mbid \in returned \/ (~ Exists(k.mbid) /\ day - lastKnown[k.mbid] >= UnknownDays)

\* The invariant of the grace in its two parts.
LEMMA GraceParts == GraceKept <=> KeysKept /\ \A w \in Mergers : TaskGrace(wk[w])
BY DEF GraceKept, KeysKept, TaskGrace, Gone, Disables

\* The same after a step.
LEMMA NextGrace == GraceKept' <=> KeysKept' /\ \A w \in Mergers : TaskGrace(wk[w])'
BY DEF GraceKept, KeysKept, TaskGrace, Gone, Disables

\* An edit of MusicBrainz makes no MBID known but one that is said to have returned,
\* and redirects none to itself.
LEMMA EditSound ==
  ASSUME MergeTyped, RedirectsSound, MbEdit
  PROVE  /\ RedirectsSound'
         /\ \A m \in Mbids : Gone(m) => Gone(m)'
         /\ returned \subseteq returned'
<1>0. None \notin Mbids
  BY MergeAssumption
<1>1. CASE \E a \in known : \E b \in known \ {a} :
             /\ known' = known \ {a}
             /\ redirect' = [m \in Mbids |->
                               IF m = a \/ redirect[m] = a THEN b ELSE redirect[m]]
             /\ UNCHANGED returned
  <2>1. PICK a, b :
             /\ a \in known /\ b \in known \ {a} /\ known' = known \ {a}
             /\ redirect' = [m \in Mbids |->
                               IF m = a \/ redirect[m] = a THEN b ELSE redirect[m]]
             /\ returned' = returned
    BY <1>1
  <2>2. RedirectsSound'
    BY <1>0, <2>1 DEF RedirectsSound, MergeTyped
  <2>3. \A m \in Mbids : Gone(m) => Gone(m)'
    BY <1>0, <2>1 DEF Gone, Exists, MergeTyped
  <2>4. QED BY <2>1, <2>2, <2>3
<1>2. CASE \E a \in known : known' = known \ {a} /\ UNCHANGED <<redirect, returned>>
  BY <1>2 DEF RedirectsSound, Gone, Exists
<1>3. CASE \E a \in Mbids :
             /\ ~ Exists(a)
             /\ known' = known \union {a}
             /\ returned' = returned \union {a}
             /\ UNCHANGED redirect
  BY <1>3 DEF RedirectsSound, Gone, Exists
<1>4. QED BY <1>1, <1>2, <1>3 DEF MbEdit

\* Edits and replication keep the grace.
LEMMA GraceMusicBrainz ==
  ASSUME MergeTyped, RedirectsSound, \A w \in Mergers : TaskSound(wk[w]), GraceKept,
         MbEdit \/ Replicate
  PROVE  GraceKept'
<1>1. UNCHANGED <<unknownSince, wk>>
  BY DEF MbEdit, Replicate, redis
<1>2. \A w \in Mergers : wk[w].pc # "idle" => wk[w].mbid \in Mbids
  BY DEF TaskSound
<1>3. CASE MbEdit
  <2>1. day' = day /\ lastKnown' = lastKnown
    BY <1>3 DEF MbEdit
  <2>2. \A m \in Mbids : m \notin returned /\ ~ Exists(m) => m \in returned' \/ ~ Exists(m)'
    BY <1>3, EditSound DEF Gone
  <2>3. returned \subseteq returned'
    BY <1>3, EditSound
  <2>4. KeysKept'
    BY <1>1, <2>1, <2>2, <2>3, GraceParts DEF KeysKept
  <2>5. ASSUME NEW w \in Mergers
        PROVE  TaskGrace(wk[w])'
    <3>1. TaskGrace(wk[w]) /\ wk'[w] = wk[w]
      BY <1>1, GraceParts
    <3>2. PICK m : m = wk[w].mbid
      OBVIOUS
    <3>3. wk[w].pc # "idle" => m \in Mbids
      BY <1>2, <3>2
    <3>4. m \in Mbids => (m \notin returned /\ ~ Exists(m) => m \in returned' \/ ~ Exists(m)')
      BY <2>2
    <3>5. QED BY <2>1, <2>3, <3>1, <3>2, <3>3, <3>4 DEF TaskGrace, Gone, Exists, Disables
  <2>6. QED BY <2>4, <2>5, NextGrace
<1>4. CASE Replicate
  <2>1. UNCHANGED <<known, redirect, returned>> /\ day' = day + 1
        /\ lastKnown' = [m \in Mbids |-> IF Exists(m) THEN day' ELSE lastKnown[m]]
    BY <1>4 DEF Replicate
  <2>2. day \in Nat /\ lastKnown \in [Mbids -> Nat] /\ UnknownDays \in Nat
    BY MergeAssumption DEF MergeTyped
  <2>3. ASSUME NEW m \in Mbids
        PROVE  /\ Exists(m)' <=> Exists(m)
               /\ lastKnown'[m] <= day'
               /\ ~ Exists(m) => lastKnown'[m] = lastKnown[m]
    BY <2>1, <2>2, GraceParts DEF Exists, KeysKept
  <2>4. KeysKept'
    BY <1>1, <2>1, <2>2, <2>3, GraceParts DEF KeysKept
  <2>5. ASSUME NEW w \in Mergers
        PROVE  TaskGrace(wk[w])'
    <3>1. TaskGrace(wk[w]) /\ wk'[w] = wk[w]
      BY <1>1, GraceParts
    <3>2. PICK m : m = wk[w].mbid
      OBVIOUS
    <3>3. wk[w].pc # "idle" => m \in Mbids
      BY <1>2, <3>2
    <3>4. m \in Mbids /\ ~ Exists(m) /\ day - lastKnown[m] >= UnknownDays =>
            ~ Exists(m)' /\ day' - lastKnown'[m] >= UnknownDays
      BY <2>1, <2>2, <2>3
    <3>5. m \in Mbids /\ ~ Exists(m) => ~ Exists(m)'
      BY <2>3
    <3>6. returned' = returned
      BY <2>1
    <3>7. wk[w].pc = "unknown" => Gone(m)'
      BY <3>1, <3>2, <3>3, <3>5, <3>6 DEF TaskGrace, Gone
    <3>8. wk[w].pc = "disable" \/ Disables(wk[w]) =>
            m \in returned' \/ (~ Exists(m)' /\ day' - lastKnown'[m] >= UnknownDays)
      BY <3>1, <3>2, <3>3, <3>4, <3>6 DEF TaskGrace, Disables
    <3>9. QED BY <3>1, <3>2, <3>7, <3>8 DEF TaskGrace, Gone, Exists, Disables
  <2>6. QED BY <2>4, <2>5, NextGrace
<1>5. QED BY <1>3, <1>4

\* A worker writes the key when MusicBrainz does not know the MBID, and disables it
\* when the key is old enough.
LEMMA GraceMerger ==
  ASSUME MergeTyped, NEW w \in Mergers, TaskSound(wk[w]), GraceKept, MergerStep(w)
  PROVE  GraceKept'
<1>1. UNCHANGED <<known, redirect, day, lastKnown, returned>>
  BY DEF MergerStep, TaskStep, MergeMissingMbid, LockRows, MergeMbids, UnknownMbid,
         DisableMbid, Prepare, CommitFingerprint, CommitIngest, TaskFails, WorkerDies, Dequeue,
         musicbrainz
<1>2. KeysKept'
  <2>1. CASE UnknownMbid(w)
    <3>1. PICK m \in Mbids : m = wk[w].mbid /\ Gone(m)
      BY <2>1, GraceParts DEF UnknownMbid, TaskSound, TaskGrace
    <3>2. unknownSince' = unknownSince \/ unknownSince' = [unknownSince EXCEPT ![m] = day]
      BY <2>1, <3>1 DEF UnknownMbid
    <3>3. \A n \in Mbids : unknownSince'[n] = unknownSince[n] \/ (n = m /\ unknownSince'[n] = day)
      BY <3>2 DEF MergeTyped
    <3>4. \A n \in Mbids : lastKnown[n] <= day
      BY GraceParts DEF KeysKept
    <3>5. QED BY <1>1, <3>1, <3>3, <3>4, GraceParts DEF KeysKept, Gone, Exists
  <2>2. CASE ~ UnknownMbid(w)
    <3>1. unknownSince' = unknownSince
      BY <2>2 DEF MergerStep, TaskStep, MergeMissingMbid, LockRows, MergeMbids, CommitIngest,
                  DisableMbid, Prepare, CommitFingerprint, TaskFails, WorkerDies, Dequeue, redis
    <3>2. QED BY <1>1, <3>1, GraceParts DEF KeysKept, Exists
  <2>3. QED BY <2>1, <2>2
<1>3. ASSUME NEW v \in Mergers \ {w}
      PROVE  TaskGrace(wk[v])'
  BY <1>1, OthersStay, GraceParts DEF TaskGrace, Gone, Exists, Disables
<1>4. TaskGrace(wk[w])'
  <2> DEFINE q == wk'[w]
  <2>0. wk[w] \in TaskType /\ TaskGrace(wk[w])
    BY GraceParts DEF MergeTyped
  <2>1. CASE q.pc \notin {"unknown", "disable", "done", "prepared"}
    BY <2>1 DEF TaskGrace, Disables
  <2>2. CASE q.pc \in {"done", "prepared"} /\ (q.new # None \/ q.tracks = {})
    BY <2>2 DEF TaskGrace, Disables
  <2>3. CASE wk' = wk
    BY <1>1, <2>3, GraceParts DEF TaskGrace, Gone, Exists, Disables
  <2>4. CASE MergeMissingMbid(w)
    <3>1. CASE Becomes(w, At(wk[w], "unknown")) /\ ~ Exists(wk[w].mbid)
      BY <1>1, <2>0, <3>1, TaskAtPc DEF TaskGrace, Becomes, Gone, Exists, Disables
    <3>2. CASE q.pc = "target"
      BY <2>1, <3>2
    <3>3. CASE Becomes(w, At(wk[w], "done")) /\ wk[w].tracks = {}
      BY <2>0, <2>2, <3>3, TaskAtPc DEF Becomes
    <3>4. QED BY <2>4, <3>1, <3>2, <3>3, LookupBecomes DEF Becomes
  <2>5. CASE UnknownMbid(w)
    <3>1. CASE EndTask(w)
      BY <2>1, <3>1, EndTaskBecomes, IdleTask DEF Becomes
    <3>2. CASE ~ EndTask(w)
      <4>1. PICK m \in Mbids : m = wk[w].mbid
        BY <2>5 DEF UnknownMbid, TaskSound
      <4>2. /\ TaskAt(w, "disable") /\ unknownSince[m] # None
            /\ ~ (day - unknownSince[m] < UnknownDays)
        BY <2>5, <3>2, <4>1 DEF UnknownMbid
      <4>3. q.pc = "disable" /\ q.mbid = m
        BY <2>0, <4>1, <4>2, TaskAtBecomes, TaskAtPc DEF Becomes
      <4>4. unknownSince[m] \in Nat /\ lastKnown[m] \in Nat /\ day \in Nat /\ UnknownDays \in Nat
        BY <4>2, MergeAssumption DEF MergeTyped
      <4>5. m \in returned \/ (~ Exists(m) /\ lastKnown[m] <= unknownSince[m])
        BY <4>2, GraceParts DEF KeysKept
      <4>6. m \in returned \/ (~ Exists(m) /\ day - lastKnown[m] >= UnknownDays)
        BY <4>2, <4>4, <4>5
      <4>7. QED BY <1>1, <4>3, <4>6 DEF TaskGrace, Exists, Disables
    <3>3. QED BY <3>1, <3>2
  <2>6. CASE DisableMbid(w)
    <3>1. q.pc = "done" /\ q.mbid = wk[w].mbid /\ q.new = wk[w].new
      BY <2>6, DisableBecomes DEF Becomes
    <3>2. wk[w].pc = "disable" /\ wk[w].new = None
      BY <2>6 DEF DisableMbid, TaskSound
    <3>3. QED BY <1>1, <2>0, <3>1, <3>2 DEF TaskGrace, Exists, Disables
  <2>7. CASE Prepare(w)
    <3>1. /\ q.pc = "prepared" /\ q.mbid = wk[w].mbid /\ q.new = wk[w].new
          /\ q.tracks = wk[w].tracks /\ wk[w].pc = "done"
      BY <2>0, <2>7, TaskAtBecomes, TaskAtPc DEF Becomes, Prepare
    <3>2. QED BY <1>1, <2>0, <3>1 DEF TaskGrace, Exists, Disables
  <2>8. CASE LockRows(w) \/ CommitFingerprint(w)
    BY <2>1, <2>8, LockRowsBecomes, CommitBecomes DEF Becomes
  <2>9. CASE MergeMbids(w) /\ ~ MergeImpossible(w)
    <3>1. PICK k \in TaskType : Becomes(w, k) /\ k.pc = "done" /\ k.new = wk[w].new
      BY <2>9, MergeBecomes
    <3>2. q.pc = "done" /\ q.new = wk[w].new
      BY <3>1 DEF Becomes
    <3>3. wk[w].new # None
      BY <2>9 DEF MergeMbids, TaskSound
    <3>4. QED BY <2>2, <3>2, <3>3
  <2>10. CASE \E m \in Mbids : Dequeue(w, m) /\ wk' # wk
    <3>1. q.pc = "lookup"
      BY <2>10, DequeueBecomes DEF Becomes
    <3>2. QED BY <2>1, <3>1
  <2>11. CASE EndTask(w)
    BY <2>1, <2>11, EndTaskBecomes, IdleTask DEF Becomes
  <2>12. (MergeMbids(w) /\ MergeImpossible(w)) \/ CommitIngest(w) \/ TaskFails(w) \/ WorkerDies(w)
           => EndTask(w)
    BY DEF MergeMbids, CommitIngest, TaskFails, WorkerDies
  <2>13. QED
    BY <2>3, <2>4, <2>5, <2>6, <2>7, <2>8, <2>9, <2>10, <2>11, <2>12 DEF MergerStep, TaskStep
<1>5. QED BY <1>2, <1>3, <1>4, NextGrace

-----------------------------------------------------------------------------
(* Sources *)

\* The sources on their way to and from an MBID, and what they add up to.
Ways(t, m) == [w \in Mergers |-> OnTheWay(w, t, m)]
Way(t, m) == SumFunctionOnSet(Ways(t, m), Mergers)

\* They are numbers.
LEMMA WayTyped ==
  ASSUME MergeTyped, NEW w \in Mergers, NEW t \in Tracks, NEW m \in Mbids
  PROVE  OnTheWay(w, t, m) \in Int
<1>1. wk[w].moved[t] \in Int
  BY DEF MergeTyped, TaskType
<1>2. QED BY <1>1 DEF OnTheWay

\* They are after a step, too.
LEMMA NextWayTyped ==
  ASSUME MergeTyped', NEW w \in Mergers, NEW t \in Tracks, NEW m \in Mbids
  PROVE  OnTheWay(w, t, m)' \in Int
<1>1. wk'[w].moved[t] \in Int
  BY DEF MergeTyped, TaskType
<1>2. QED BY <1>1 DEF OnTheWay

\* The sources that one worker has on the way change: the sum changes by as much.
LEMMA WayChanged ==
  ASSUME MergeTyped, MergeTyped', NEW w \in Mergers, NEW t \in Tracks, NEW m \in Mbids,
         \A v \in Mergers \ {w} : wk'[v] = wk[v]
  PROVE  Way(t, m)' = Way(t, m) + OnTheWay(w, t, m)' - OnTheWay(w, t, m)
<1> DEFINE f == Ways(t, m)
           g == Ways(t, m)'
<1>1. \A v \in Mergers : f[v] \in Int /\ g[v] \in Int
  BY WayTyped, NextWayTyped DEF Ways
<1>2. \A v \in Mergers \ {w} : f[v] = g[v]
  BY DEF Ways, OnTheWay
<1>3. f[w] = OnTheWay(w, t, m) /\ g[w] = OnTheWay(w, t, m)'
  BY DEF Ways
<1>4. IsFiniteSet(Mergers)
  BY MergeAssumption
<1> HIDE DEF f, g
<1>5. SumFunctionOnSet(g, Mergers) = SumFunctionOnSet(f, Mergers) + g[w] - f[w]
  BY <1>1, <1>2, <1>4, SumChanged
<1>6. QED BY <1>3, <1>5 DEF Way, f, g

\* The sum is a number, and 0 when no worker has anything on the way.
LEMMA WaySum ==
  ASSUME MergeTyped, NEW t \in Tracks, NEW m \in Mbids
  PROVE  /\ Way(t, m) \in Int
         /\ (\A w \in Mergers : OnTheWay(w, t, m) = 0) => Way(t, m) = 0
<1> DEFINE f == Ways(t, m)
<1>1. \A w \in Mergers : f[w] = OnTheWay(w, t, m) /\ f[w] \in Int
  BY WayTyped DEF Ways
<1>2. IsFiniteSet(Mergers)
  BY MergeAssumption
<1> HIDE DEF f
<1>3. SumFunctionOnSet(f, Mergers) \in Int
  BY <1>1, <1>2, SumInt
<1>4. (\A w \in Mergers : f[w] = 0) => SumFunctionOnSet(f, Mergers) = 0
  BY <1>2, SumZero
<1>5. QED BY <1>1, <1>3, <1>4 DEF Way, f

\* How many imports of m for track t one database only has committed.
Halves(t, m, database) == Cardinality(Half(t, m, database))

\* There are finitely many.
LEMMA HalvesTyped ==
  ASSUME NEW t, NEW m, NEW database
  PROVE  Halves(t, m, database) \in Nat /\ IsFiniteSet(Half(t, m, database))
<1>1. Half(t, m, database) \subseteq Importers /\ IsFiniteSet(Importers)
  BY MergeAssumption DEF Half
<1>2. QED BY <1>1, FS_Subset, FS_CardinalityType DEF Halves

\* The invariant of the sources, in terms of these numbers.
LEMMA BalancedIs ==
  ASSUME NEW t, NEW m
  PROVE  Balanced(t, m) <=>
           CountOf(<<t, m>>) + Halves(t, m, "ingest") =
             sources[<<t, m>>] + Halves(t, m, "fingerprint") + Way(t, m)
BY DEF Balanced, Halves, Way, Ways

\* The same after a step.
LEMMA NextBalanced ==
  ASSUME NEW t, NEW m
  PROVE  Balanced(t, m)' <=>
           CountOf(<<t, m>>)' + Halves(t, m, "ingest")' =
             sources'[<<t, m>>] + Halves(t, m, "fingerprint")' + Way(t, m)'
BY DEF Balanced, Halves, Way, Ways

\* Only the fingerprint commit leaves a task between its commits.
LEMMA NotCommitted ==
  ASSUME MergeTyped, NEW w \in Mergers, TaskSound(wk[w]), MergerStep(w),
         ~ CommitFingerprint(w)
  PROVE  wk'[w].pc # "committed"
<1>0. wk[w] \in TaskType
  BY DEF MergeTyped
<1>1. CASE Becomes(w, Idle)
  BY <1>1, IdleTask DEF Becomes
<1>2. CASE MergeMissingMbid(w)
  <2>1. CASE Becomes(w, At(wk[w], "unknown")) \/ Becomes(w, At(wk[w], "done"))
    BY <1>0, <2>1, TaskAtPc DEF Becomes
  <2>2. QED BY <1>2, <2>1, LookupBecomes DEF Becomes
<1>3. CASE LockRows(w)
  BY <1>3, LockRowsBecomes DEF Becomes
<1>4. CASE MergeMbids(w) /\ ~ MergeImpossible(w)
  BY <1>4, MergeBecomes DEF Becomes
<1>5. CASE UnknownMbid(w) /\ ~ EndTask(w)
  <2>1. TaskAt(w, "disable")
    BY <1>5 DEF UnknownMbid
  <2>2. QED BY <1>0, <2>1, TaskAtBecomes, TaskAtPc DEF Becomes
<1>6. CASE DisableMbid(w)
  BY <1>6, DisableBecomes DEF Becomes
<1>7. CASE Prepare(w)
  BY <1>0, <1>7, TaskAtBecomes, TaskAtPc DEF Becomes, Prepare
<1>8. CASE \E m \in Mbids : Dequeue(w, m)
  <2>1. CASE wk' = wk
    BY <1>8, <2>1 DEF Dequeue
  <2>2. CASE wk' # wk
    BY <1>8, <2>2, DequeueBecomes DEF Becomes
  <2>3. QED BY <2>1, <2>2
<1>9. EndTask(w) => Becomes(w, Idle)
  BY EndTaskBecomes
<1>10. (MergeMbids(w) /\ MergeImpossible(w)) \/ CommitIngest(w) \/ TaskFails(w) \/ WorkerDies(w)
         => EndTask(w)
  BY DEF MergeMbids, CommitIngest, TaskFails, WorkerDies
<1>11. QED
  BY <1>1, <1>2, <1>3, <1>4, <1>5, <1>6, <1>7, <1>8, <1>9, <1>10 DEF MergerStep, TaskStep

\* What a step of a worker adds to a count it adds to the sources, there or on the way.
LEMMA StepBalance ==
  ASSUME MergeTyped, MergeTyped', NEW w \in Mergers, TaskSound(wk[w]), MovesItsCounts(wk[w]),
         MergerStep(w), NEW t \in Tracks, t \notin adrift', NEW m \in Mbids
  PROVE  CountOf(<<t, m>>)' - CountOf(<<t, m>>) =
           (sources'[<<t, m>>] - sources[<<t, m>>]) + (OnTheWay(w, t, m)' - OnTheWay(w, t, m))
<1>0. PICK k \in TaskType : k = wk[w]
  BY DEF MergeTyped
<1>1. CountOf(<<t, m>>) \in Int /\ sources[<<t, m>>] \in Int /\ k.moved[t] \in Int
      /\ \A n \in Mbids : CountOf(<<t, n>>) \in Int
  BY RowIsPair, RowThere DEF MergeTyped, TaskType
<1>2. CASE CommitFingerprint(w)
  <2>1. sources' = sources /\ t \notin adrift /\ t \notin k.missed /\ k.pc = "prepared"
    BY <1>0, <1>2 DEF CommitFingerprint
  <2>2. OnTheWay(w, t, m) = 0
    BY <1>0, <2>1 DEF OnTheWay
  <2>3. wk'[w].pc = "committed" /\ wk'[w].mbid = k.mbid /\ wk'[w].new = k.new
        /\ wk'[w].tracks = k.tracks /\ wk'[w].moved = k.moved
    BY <1>0, <1>2, CommitBecomes DEF Becomes
  <2>4. TaskSound(k)
    BY <1>0
  <2>5. CASE k.new = None \/ t \notin k.tracks
    <3>1. CountOf(<<t, m>>)' = CountOf(<<t, m>>)
      BY <1>0, <1>2, <2>4, <2>5, CommitRows
    <3>2. OnTheWay(w, t, m)' = 0
      BY <2>3, <2>5 DEF OnTheWay
    <3>3. QED BY <1>1, <2>1, <2>2, <3>1, <3>2
  <2>6. CASE k.new # None /\ t \in k.tracks
    <3>1. PICK a \in Mbids, b \in Mbids : a = k.mbid /\ b = k.new
      BY <1>0, <2>1, <2>4, <2>6 DEF TaskType, TaskSound
    <3>2. /\ a # b
          /\ CountOf(<<t, a>>)' = 0
          /\ CountOf(<<t, b>>)' = CountOf(<<t, b>>) + CountOf(<<t, a>>)
          /\ \A n \in Mbids \ {a, b} : CountOf(<<t, n>>)' = CountOf(<<t, n>>)
      BY <1>0, <1>2, <2>4, <2>6, <3>1, CommitRows
    <3>3. k.moved[t] = CountOf(<<t, a>>)
      BY <1>0, <2>1, <2>6, <3>1 DEF MovesItsCounts
    <3>4. OnTheWay(w, t, m)' = IF m = b THEN k.moved[t] ELSE IF m = a THEN - k.moved[t] ELSE 0
      BY <2>3, <2>6, <3>1 DEF OnTheWay
    <3>5. CASE m = a
      BY <1>1, <2>1, <2>2, <3>2, <3>3, <3>4, <3>5
    <3>6. CASE m = b
      BY <1>1, <2>1, <2>2, <3>2, <3>3, <3>4, <3>6
    <3>7. CASE m \notin {a, b}
      BY <1>1, <2>1, <2>2, <3>2, <3>4, <3>7
    <3>8. QED BY <3>5, <3>6, <3>7
  <2>7. QED BY <2>5, <2>6
<1>3. CASE CommitIngest(w)
  <2>1. rows' = rows /\ k.pc = "committed"
    BY <1>0, <1>3 DEF CommitIngest
  <2>2. CountOf(<<t, m>>)' = CountOf(<<t, m>>)
    BY <2>1 DEF CountOf
  <2>3. OnTheWay(w, t, m)' = 0
    BY <1>3, EndTaskBecomes, IdleTask DEF CommitIngest, Becomes, OnTheWay
  <2>4. CASE k.new = None
    <3>1. sources' = sources /\ OnTheWay(w, t, m) = 0
      BY <1>0, <1>3, <2>4 DEF CommitIngest, OnTheWay
    <3>2. QED BY <1>1, <2>2, <2>3, <3>1
  <2>5. CASE k.new # None
    <3>1. sources'[<<t, m>>] = CASE m = k.mbid -> sources[<<t, m>>] - k.moved[t]
                                 [] m = k.new -> sources[<<t, m>>] + k.moved[t]
                                 [] OTHER -> sources[<<t, m>>]
      BY <1>0, <1>3, <2>5, RowIsPair DEF CommitIngest
    <3>2. k.new # k.mbid /\ (t \notin k.tracks => k.moved[t] = 0)
      BY <1>0, <2>1, <2>5 DEF TaskSound, MovesItsCounts
    <3>3. OnTheWay(w, t, m) = IF t \in k.tracks
                                THEN IF m = k.new THEN k.moved[t]
                                     ELSE IF m = k.mbid THEN - k.moved[t] ELSE 0
                                ELSE 0
      BY <1>0, <2>1, <2>5 DEF OnTheWay
    <3>4. QED BY <1>1, <2>2, <2>3, <3>1, <3>2, <3>3
  <2>6. QED BY <2>4, <2>5
<1>4. CASE ~ CommitFingerprint(w) /\ ~ CommitIngest(w)
  <2>1. rows' = rows /\ sources' = sources
    BY <1>4 DEF MergerStep, TaskStep, MergeMissingMbid, LockRows, MergeMbids, UnknownMbid,
                DisableMbid, Prepare, TaskFails, WorkerDies, Dequeue
  <2>2. CountOf(<<t, m>>)' = CountOf(<<t, m>>)
    BY <2>1 DEF CountOf
  <2>3. OnTheWay(w, t, m) = 0
    <3>1. CASE k.pc # "committed"
      BY <1>0, <3>1 DEF OnTheWay
    <3>2. CASE TaskFails(w) \/ WorkerDies(w)
      <4>1. t \notin TornTracks(k)
        BY <1>0, <3>2 DEF TaskFails, WorkerDies
      <4>2. QED BY <1>0, <4>1 DEF TornTracks, OnTheWay
    <3>3. k.pc = "committed" => TaskFails(w) \/ WorkerDies(w)
      BY <1>0, <1>4 DEF MergerStep, TaskStep, MergeMissingMbid, LockRows, MergeMbids,
                        UnknownMbid, DisableMbid, Prepare, Dequeue
    <3>4. QED BY <3>1, <3>2, <3>3
  <2>4. OnTheWay(w, t, m)' = 0
    <3>1. wk'[w].pc # "committed"
      BY <1>4, NotCommitted
    <3>2. QED BY <3>1 DEF OnTheWay
  <2>5. QED BY <1>1, <2>1, <2>2, <2>3, <2>4
<1>5. QED BY <1>2, <1>3, <1>4

\* So the balance holds after the step of a worker.
LEMMA BalancedMerger ==
  ASSUME MergeTyped, MergeTyped', NEW w \in Mergers, TaskSound(wk[w]), Explained,
         MergerStep(w), NEW t \in Tracks, t \notin adrift', NEW m \in Mbids
  PROVE  Balanced(t, m)'
<1>1. imp' = imp /\ adrift \subseteq adrift'
  BY DEF MergerStep, TaskStep, MergeMissingMbid, LockRows, MergeMbids, UnknownMbid,
         DisableMbid, Prepare, CommitFingerprint, CommitIngest, TaskFails, WorkerDies, Dequeue,
         history
<1>2. \A d : Halves(t, m, d)' = Halves(t, m, d)
  BY <1>1 DEF Halves, Half
<1>3. Way(t, m)' = Way(t, m) + OnTheWay(w, t, m)' - OnTheWay(w, t, m)
  BY OthersStay, WayChanged
<1>4. CountOf(<<t, m>>)' - CountOf(<<t, m>>) =
        (sources'[<<t, m>>] - sources[<<t, m>>]) + (OnTheWay(w, t, m)' - OnTheWay(w, t, m))
  BY StepBalance DEF Explained
<1>5. CountOf(<<t, m>>) + Halves(t, m, "ingest") =
        sources[<<t, m>>] + Halves(t, m, "fingerprint") + Way(t, m)
  BY <1>1, BalancedIs DEF Explained
<1>6. <<t, m>> \in Rows
  BY RowIsPair
<1>7. CountOf(<<t, m>>) \in Int /\ sources[<<t, m>>] \in Int
  BY <1>6, RowThere DEF MergeTyped
<1>8. CountOf(<<t, m>>)' \in Int /\ sources'[<<t, m>>] \in Int
  BY <1>6, NextTyped DEF MergeTyped
<1>9. Way(t, m) \in Int /\ OnTheWay(w, t, m) \in Int /\ OnTheWay(w, t, m)' \in Int
      /\ Halves(t, m, "ingest") \in Int /\ Halves(t, m, "fingerprint") \in Int
  BY WaySum, WayTyped, NextWayTyped, HalvesTyped
<1> DEFINE c == CountOf(<<t, m>>)
           cn == CountOf(<<t, m>>)'
           s == sources[<<t, m>>]
           sn == sources'[<<t, m>>]
           o == OnTheWay(w, t, m)
           on == OnTheWay(w, t, m)'
           y == Way(t, m)
           yn == Way(t, m)'
           hi == Halves(t, m, "ingest")
           hf == Halves(t, m, "fingerprint")
<1>10. cn - c = (sn - s) + (on - o) /\ yn = y + on - o /\ c + hi = s + hf + y
  BY <1>3, <1>4, <1>5
<1>11. c \in Int /\ cn \in Int /\ s \in Int /\ sn \in Int /\ o \in Int /\ on \in Int
       /\ y \in Int /\ hi \in Int /\ hf \in Int
  BY <1>7, <1>8, <1>9
<1>12. Balanced(t, m)' <=> cn + hi = sn + hf + yn
  BY <1>2, NextBalanced
<1> HIDE DEF c, cn, s, sn, o, on, y, yn, hi, hf
<1>13. cn + hi = sn + hf + yn
  BY <1>10, <1>11
<1>14. QED BY <1>12, <1>13

\* Under its locks a merge sees as many sources as counts, or knows that it misses some.
LEMMA MergeSees ==
  ASSUME MergeTyped, NEW w \in Mergers, TaskSound(wk[w]), RowsExclusive, Explained,
         MergeMbids(w), NEW t \in wk[w].tracks, t \notin adrift,
         NEW a \in Mbids, a = wk[w].mbid,
         \A i \in Importers : ~ (imp[i].pc = "written" /\ imp[i].row = <<t, a>>
                                 /\ imp[i].done = {"fingerprint"}),
         \A v \in Mergers : ~ (wk[v].pc = "committed" /\ wk[v].new = a /\ t \in wk[v].tracks)
  PROVE  sources[<<t, a>>] = CountOf(<<t, a>>)
<1>1. t \in Tracks /\ wk[w].pc = "merge" /\ <<t, a>> \in wk[w].held /\ <<t, a>> \in Rows
  BY RowIsPair DEF MergeTyped, TaskType, MergeMbids, TaskSound
<1>2. Half(t, a, "ingest") = {}
  BY <1>1 DEF RowsExclusive, Half
<1>3. Half(t, a, "fingerprint") = {}
  BY DEF Half
<1>4. \A d : Half(t, a, d) = {} => Halves(t, a, d) = 0
  BY FS_EmptySet DEF Halves
<1>5. ASSUME NEW v \in Mergers
      PROVE  OnTheWay(v, t, a) = 0
  <2>1. v # w => ~ (wk[v].pc = "committed" /\ wk[v].mbid = a /\ t \in wk[v].tracks)
    BY DEF MergeMbids, SourcesLocked
  <2>2. QED BY <1>1, <2>1 DEF OnTheWay
<1>6. Way(t, a) = 0
  BY <1>1, <1>5, WaySum
<1>7. CountOf(<<t, a>>) + Halves(t, a, "ingest") =
        sources[<<t, a>>] + Halves(t, a, "fingerprint") + Way(t, a)
  BY <1>1, BalancedIs DEF Explained
<1>8. CountOf(<<t, a>>) \in Int /\ sources[<<t, a>>] \in Int
  BY <1>1, RowThere DEF MergeTyped
<1>9. QED BY <1>2, <1>3, <1>4, <1>6, <1>7, <1>8

\* A prepared merge goes on moving what it counts: nobody else writes its rows.
LEMMA MovesOther ==
  ASSUME MergeTyped, NEW v \in Mergers, TaskSound(wk[v]), MovesItsCounts(wk[v]), wk'[v] = wk[v],
         \A r \in wk[v].held : CountOf(r)' = CountOf(r), adrift \subseteq adrift'
  PROVE  MovesItsCounts(wk[v])'
<1>1. PICK k \in TaskType : k = wk[v]
  BY DEF MergeTyped
<1>2. PICK a : a = k.mbid
  OBVIOUS
<1>3. k.pc \in {"done", "prepared"} =>
        \A t \in k.tracks : CountOf(<<t, a>>)' = CountOf(<<t, a>>)
  BY <1>1, <1>2 DEF TaskSound
<1>4. k.pc \in {"done", "prepared"} /\ k.new # None =>
        \A t \in k.tracks \ (k.missed \union adrift') : k.moved[t] = CountOf(<<t, a>>)'
  BY <1>1, <1>2, <1>3 DEF MovesItsCounts
<1>5. k.pc \in {"done", "prepared", "committed"} /\ k.new # None =>
        \A t \in Tracks \ k.tracks : k.moved[t] = 0
  BY <1>1 DEF MovesItsCounts
<1>6. QED BY <1>1, <1>2, <1>4, <1>5 DEF MovesItsCounts, CountOf

\* A worker moves what it counts.
LEMMA MovesMerger ==
  ASSUME MergeTyped, MergeTyped', RowsExclusive, \A v \in Mergers : TaskSound(wk[v]), Explained,
         NEW w \in Mergers, MergerStep(w)
  PROVE  \A v \in Mergers : MovesItsCounts(wk[v])'
<1>1. adrift \subseteq adrift'
  BY DEF MergerStep, TaskStep, MergeMissingMbid, LockRows, MergeMbids, UnknownMbid,
         DisableMbid, Prepare, CommitFingerprint, CommitIngest, TaskFails, WorkerDies, Dequeue,
         history
<1>2. ~ CommitFingerprint(w) => rows' = rows
  BY DEF MergerStep, TaskStep, MergeMissingMbid, LockRows, MergeMbids, UnknownMbid,
         DisableMbid, Prepare, CommitIngest, TaskFails, WorkerDies, Dequeue
<1>3. ASSUME NEW v \in Mergers \ {w}
      PROVE  MovesItsCounts(wk[v])'
  <2>1. wk'[v] = wk[v]
    BY OthersStay
  <2>2. wk[v].held \subseteq Rows
    BY DEF MergeTyped, TaskType
  <2>3. \A r \in wk[v].held : rows'[r] = rows[r]
    BY <1>2, <2>2, CommitLocked DEF RowsExclusive
  <2>4. \A r \in wk[v].held : CountOf(r)' = CountOf(r)
    BY <2>3 DEF CountOf
  <2>5. MovesItsCounts(wk[v]) /\ TaskSound(wk[v])
    BY DEF Explained
  <2>6. QED BY <1>1, <2>1, <2>4, <2>5, MovesOther
<1>4. MovesItsCounts(wk[w])'
  <2>0. wk[w] \in TaskType /\ TaskSound(wk[w]) /\ MovesItsCounts(wk[w])
    BY DEF MergeTyped, Explained
  <2>1. CASE wk'[w].pc \notin {"done", "prepared", "committed"} \/ wk'[w].new = None
    BY <2>1 DEF MovesItsCounts
  <2>2. CASE MergeMbids(w) /\ ~ MergeImpossible(w)
    <3>1. PICK k \in TaskType :
            /\ Becomes(w, k) /\ k.pc = "done" /\ k.mbid = wk[w].mbid /\ k.new = wk[w].new
            /\ k.tracks = wk[w].tracks
            /\ \A t \in Tracks : k.moved[t] = IF t \in k.tracks THEN sources[<<t, k.mbid>>] ELSE 0
            /\ \A t \in k.tracks \ k.missed :
                 /\ \A i \in Importers : ~ (imp[i].pc = "written" /\ imp[i].row = <<t, k.mbid>>
                                            /\ imp[i].done = {"fingerprint"})
                 /\ \A v \in Mergers : ~ (wk[v].pc = "committed" /\ wk[v].new = k.mbid
                                          /\ t \in wk[v].tracks)
      BY <2>0, <2>2, MergeBecomes
    <3>2. PICK a \in Mbids : a = k.mbid
      BY <2>2, <3>1 DEF TaskSound, MergeMbids
    <3>3. rows' = rows
      BY <1>2, <2>2 DEF CommitFingerprint, MergeMbids
    <3>4. ASSUME NEW t \in k.tracks \ (k.missed \union adrift')
          PROVE  k.moved[t] = CountOf(<<t, a>>)'
      <4>1. t \in Tracks /\ t \in wk[w].tracks /\ t \notin adrift
        BY <1>1, <3>1 DEF TaskType
      <4>2. sources[<<t, a>>] = CountOf(<<t, a>>)
        <5>1. MergeMbids(w) /\ TaskSound(wk[w]) /\ a = wk[w].mbid
          BY <2>0, <2>2, <3>1, <3>2
        <5>2. \A i \in Importers : ~ (imp[i].pc = "written" /\ imp[i].row = <<t, a>>
                                      /\ imp[i].done = {"fingerprint"})
          BY <3>1, <3>2
        <5>3. \A v \in Mergers : ~ (wk[v].pc = "committed" /\ wk[v].new = a
                                    /\ t \in wk[v].tracks)
          BY <3>1, <3>2
        <5>4. QED BY <4>1, <5>1, <5>2, <5>3, MergeSees
      <4>3. k.moved[t] = sources[<<t, a>>]
        BY <3>1, <3>2, <4>1
      <4>4. CountOf(<<t, a>>)' = CountOf(<<t, a>>)
        BY <3>3 DEF CountOf
      <4>5. QED BY <4>2, <4>3, <4>4
    <3>5. \A t \in Tracks \ k.tracks : k.moved[t] = 0
      BY <3>1
    <3>6. wk'[w] = k
      BY <3>1 DEF Becomes
    <3>7. QED BY <3>1, <3>2, <3>4, <3>5, <3>6 DEF MovesItsCounts, CountOf
  <2>3. CASE Prepare(w)
    <3>1. PICK k \in TaskType : k = wk[w]
      BY <2>0
    <3>2. wk'[w] = At(k, "prepared") /\ k.pc = "done" /\ At(k, "prepared").pc = "prepared"
          /\ At(k, "prepared").mbid = k.mbid /\ At(k, "prepared").new = k.new
          /\ At(k, "prepared").tracks = k.tracks /\ At(k, "prepared").moved = k.moved
          /\ At(k, "prepared").missed = k.missed
      BY <2>3, <3>1, TaskAtBecomes, TaskAtPc DEF Prepare, Becomes
    <3>3. rows' = rows /\ adrift' = adrift
      BY <2>3 DEF Prepare, history
    <3>4. QED BY <2>0, <3>1, <3>2, <3>3 DEF MovesItsCounts, CountOf
  <2>4. CASE CommitFingerprint(w)
    <3>1. wk'[w].pc = "committed" /\ wk'[w].new = wk[w].new /\ wk'[w].tracks = wk[w].tracks
          /\ wk'[w].moved = wk[w].moved /\ wk[w].pc = "prepared"
      BY <2>4, CommitBecomes DEF Becomes, CommitFingerprint
    <3>2. QED BY <2>0, <3>1 DEF MovesItsCounts
  <2>5. CASE DisableMbid(w)
    <3>1. wk'[w].new = None
      BY <2>0, <2>5, DisableBecomes DEF Becomes, TaskSound, DisableMbid
    <3>2. QED BY <2>1, <3>1
  <2>6. CASE EndTask(w)
    <3>1. wk'[w].new = None
      BY <2>6, EndTaskBecomes, IdleTask DEF Becomes
    <3>2. QED BY <2>1, <3>1
  <2>7. CASE MergeMissingMbid(w) /\ ~ EndTask(w)
    <3>1. CASE Becomes(w, At(wk[w], "unknown"))
      <4>1. wk'[w].pc = "unknown"
        BY <2>0, <3>1, TaskAtPc DEF Becomes
      <4>2. QED BY <2>1, <4>1
    <3>2. CASE wk'[w].pc = "target"
      BY <2>1, <3>2
    <3>4. CASE Becomes(w, At(wk[w], "done")) /\ wk[w].new = None
      <4>1. wk'[w].new = None
        BY <2>0, <3>4, TaskAtPc DEF Becomes
      <4>2. QED BY <2>1, <4>1
    <3>3. QED BY <2>0, <2>7, <3>1, <3>2, <3>4, LookupBecomes DEF Becomes
  <2>8. CASE LockRows(w)
    <3>1. wk'[w].pc = "merge"
      BY <2>8, LockRowsBecomes DEF Becomes
    <3>2. QED BY <2>1, <3>1
  <2>9. CASE UnknownMbid(w) /\ ~ EndTask(w)
    <3>1. TaskAt(w, "disable")
      BY <2>9 DEF UnknownMbid
    <3>2. wk'[w].pc = "disable"
      BY <2>0, <3>1, TaskAtBecomes, TaskAtPc DEF Becomes
    <3>3. QED BY <2>1, <3>2
  <2>10. CASE \E m \in Mbids : Dequeue(w, m)
    <3>1. CASE wk' = wk
      BY <2>1, <2>10, <3>1 DEF Dequeue
    <3>2. CASE wk' # wk
      <4>1. wk'[w].pc = "lookup"
        BY <2>10, <3>2, DequeueBecomes DEF Becomes
      <4>2. QED BY <2>1, <4>1
    <3>3. QED BY <3>1, <3>2
  <2>11. (MergeMbids(w) /\ MergeImpossible(w)) \/ CommitIngest(w) \/ TaskFails(w) \/ WorkerDies(w)
           => EndTask(w)
    BY DEF MergeMbids, CommitIngest, TaskFails, WorkerDies
  <2>12. QED
    BY <2>2, <2>3, <2>4, <2>5, <2>6, <2>7, <2>8, <2>9, <2>10, <2>11 DEF MergerStep, TaskStep
<1>5. QED BY <1>3, <1>4

\* Is import q one of m for track t that this database only has committed?
InHalf(q, t, m, d) == q.pc = "written" /\ q.row = <<t, m>> /\ q.done = {d}

\* One importer goes on: it begins to count as a half, stops or stays what it was.
LEMMA HalfStep ==
  ASSUME MergeTyped, NEW i \in Importers, NEW q \in ImportType, Turns(i, q), NEW t, NEW m, NEW d
  PROVE  /\ (InHalf(q, t, m, d) <=> InHalf(imp[i], t, m, d)) =>
              Halves(t, m, d)' = Halves(t, m, d)
         /\ InHalf(q, t, m, d) /\ ~ InHalf(imp[i], t, m, d) =>
              Halves(t, m, d)' = Halves(t, m, d) + 1
         /\ ~ InHalf(q, t, m, d) /\ InHalf(imp[i], t, m, d) =>
              Halves(t, m, d)' = Halves(t, m, d) - 1
<1> DEFINE H == Half(t, m, d)
           N == Half(t, m, d)'
<1>1. \A j \in Importers \ {i} : j \in N <=> j \in H
  BY DEF Turns, Half
<1>2. (i \in H <=> InHalf(imp[i], t, m, d)) /\ (i \in N <=> InHalf(q, t, m, d))
  BY DEF Turns, Half, InHalf
<1>3. H \subseteq Importers /\ N \subseteq Importers /\ IsFiniteSet(H)
  <2>1. H \subseteq Importers /\ N \subseteq Importers
    BY DEF Half
  <2>2. IsFiniteSet(H)
    BY HalvesTyped
  <2>3. QED BY <2>1, <2>2
<1>4. Halves(t, m, d) = Cardinality(H) /\ Halves(t, m, d)' = Cardinality(N)
  BY DEF Halves
<1> HIDE DEF H, N
<1>5. CASE InHalf(q, t, m, d) <=> InHalf(imp[i], t, m, d)
  <2>1. N = H
    BY <1>1, <1>2, <1>3, <1>5
  <2>2. QED BY <1>4, <1>5, <2>1
<1>6. CASE InHalf(q, t, m, d) /\ ~ InHalf(imp[i], t, m, d)
  <2>1. N = H \union {i} /\ i \notin H
    BY <1>1, <1>2, <1>3, <1>6
  <2>2. Cardinality(N) = Cardinality(H) + 1
    BY <1>3, <2>1, FS_AddElement
  <2>3. QED BY <1>4, <1>6, <2>2
<1>7. CASE ~ InHalf(q, t, m, d) /\ InHalf(imp[i], t, m, d)
  <2>1. N = H \ {i} /\ i \in H
    BY <1>1, <1>2, <1>3, <1>7
  <2>2. Cardinality(N) = Cardinality(H) - 1
    BY <1>3, <2>1, FS_RemoveElement
  <2>3. QED BY <1>4, <1>7, <2>2
<1>8. QED BY <1>5, <1>6, <1>7

\* The sources on their way are the business of the workers.
LEMMA WaySame ==
  ASSUME NEW t, NEW m, wk' = wk
  PROVE  Way(t, m)' = Way(t, m)
BY DEF Way, Ways, OnTheWay

\* The statements of an import and its end without a commit keep the balance of the
\* tracks that are not torn.
LEMMA BalancedQuietImport ==
  ASSUME MergeTyped, MergeTyped', Explained, NEW i \in Importers, ImportSound(imp[i]),
         ImportWrite(i) \/ ImportFails(i) \/ \E r \in Rows : ImportStart(i, r),
         NEW t \in Tracks, t \notin adrift', NEW m \in Mbids
  PROVE  Balanced(t, m)'
<1>1. UNCHANGED <<rows, sources, wk>> /\ t \notin adrift
  BY DEF ImportWrite, ImportFails, ImportStart, history
<1>2. imp[i] \in ImportType
  BY DEF MergeTyped
<1>3. \E q \in ImportType :
        /\ Turns(i, q)
        /\ \A d : ~ InHalf(q, t, m, d) /\ ~ InHalf(imp[i], t, m, d)
  <2>1. CASE ImportWrite(i)
    <3>1. imp[i].pc = "write" /\ imp[i].done = {}
      BY <2>1 DEF ImportWrite, ImportSound
    <3>2. \A d : ~ InHalf(imp[i], t, m, d) /\ ~ InHalf(NoImport, t, m, d)
      BY <3>1, IdleImport DEF InHalf
    <3>3. \A q : q.done = {} => \A d : ~ InHalf(q, t, m, d)
      BY DEF InHalf
    <3>4. QED BY <2>1, <3>1, <3>2, <3>3, WriteTurns, IdleImport
  <2>2. CASE ImportFails(i)
    <3>1. Turns(i, NoImport)
      BY <2>2, IdleImport DEF ImportFails, Turns, MergeTyped
    <3>2. \A d : ~ InHalf(NoImport, t, m, d)
      BY IdleImport DEF InHalf
    <3>3. ASSUME NEW d PROVE ~ InHalf(imp[i], t, m, d)
      <4>1. imp[i].done = {} \/ t # imp[i].row[1]
        BY <2>2 DEF ImportFails
      <4>2. QED BY <4>1 DEF InHalf
    <3>4. QED BY <3>1, <3>2, <3>3, IdleImport
  <2>3. CASE \E r \in Rows : ImportStart(i, r)
    <3>1. PICK q \in ImportType : Turns(i, q) /\ q.pc = "write"
      BY <2>3, StartTurns
    <3>2. imp[i].pc = "idle"
      BY <2>3 DEF ImportStart
    <3>3. \A d : ~ InHalf(q, t, m, d) /\ ~ InHalf(imp[i], t, m, d)
      BY <3>1, <3>2 DEF InHalf
    <3>4. QED BY <3>1, <3>3
  <2>4. QED BY <2>1, <2>2, <2>3
<1>4. \A d : Halves(t, m, d)' = Halves(t, m, d)
  BY <1>3, HalfStep
<1>5. CountOf(<<t, m>>)' = CountOf(<<t, m>>) /\ sources'[<<t, m>>] = sources[<<t, m>>]
      /\ Way(t, m)' = Way(t, m)
  BY <1>1, WaySame DEF CountOf
<1>6. Balanced(t, m)
  BY <1>1 DEF Explained
<1>7. QED BY <1>4, <1>5, <1>6, BalancedIs, NextBalanced

\* The two commits of an import keep the balance, in either order.
LEMMA BalancedCommit ==
  ASSUME MergeTyped, MergeTyped', Explained, NEW i \in Importers, ImportSound(imp[i]),
         ImportCommitFingerprint(i) \/ ImportCommitIngest(i),
         NEW t \in Tracks, t \notin adrift', NEW m \in Mbids
  PROVE  Balanced(t, m)'
<1>1. wk' = wk /\ t \notin adrift /\ imp[i].pc = "written" /\ imp[i] \in ImportType
  BY DEF ImportCommitFingerprint, ImportCommitIngest, MergeTyped, history
<1>2. PICK r \in Rows : r = imp[i].row
  BY <1>1 DEF ImportSound
<1>3. <<t, m>> \in Rows
  BY RowIsPair
<1> DEFINE c == CountOf(<<t, m>>)
           cn == CountOf(<<t, m>>)'
           s == sources[<<t, m>>]
           sn == sources'[<<t, m>>]
           y == Way(t, m)
           hi == Halves(t, m, "ingest")
           hin == Halves(t, m, "ingest")'
           hf == Halves(t, m, "fingerprint")
           hfn == Halves(t, m, "fingerprint")'
<1>4. c + hi = s + hf + y
  BY <1>1, BalancedIs DEF Explained
<1>5. Balanced(t, m)' <=> cn + hin = sn + hfn + y
  BY <1>1, NextBalanced, WaySame
<1>6. c \in Int /\ s \in Int /\ y \in Int /\ hi \in Int /\ hf \in Int
  BY <1>3, RowThere, WaySum, HalvesTyped DEF MergeTyped
<1>7. CASE ImportCommitFingerprint(i)
  <2>1. sources' = sources /\ imp[i].done \in {{}, {"ingest"}}
    BY <1>1, <1>7 DEF ImportCommitFingerprint, ImportType
  <2>2. cn = IF <<t, m>> = r THEN c + 1 ELSE c
    <3>1. PICK n \in RowType : rows' = [rows EXCEPT ![r] = n] /\ n.count = CountOf(r) + 1
      BY <1>2, <1>7, ImportCounts
    <3>2. rows'[<<t, m>>] = IF <<t, m>> = r THEN n ELSE rows[<<t, m>>]
      BY <1>3, <3>1 DEF MergeTyped
    <3>3. n # None
      BY MergeAssumption
    <3>4. QED BY <3>1, <3>2, <3>3 DEF CountOf
  <2>3. PICK q \in ImportType :
          /\ Turns(i, q)
          /\ imp[i].done # {} => q = NoImport
          /\ imp[i].done = {} => q.pc = "written" /\ q.row = r /\ q.done = {"fingerprint"}
    BY <1>1, <1>2, <1>7, EndedTurns DEF ImportCommitFingerprint
  <2>4. CASE <<t, m>> # r
    <3>1. \A d : ~ InHalf(q, t, m, d) /\ ~ InHalf(imp[i], t, m, d)
      BY <1>2, <2>3, <2>4, IdleImport DEF InHalf
    <3>2. hin = hi /\ hfn = hf
      BY <2>3, <3>1, HalfStep
    <3>3. QED BY <1>4, <1>5, <2>1, <2>2, <2>4, <3>2
  <2>5. CASE <<t, m>> = r /\ imp[i].done = {}
    <3>1. InHalf(q, t, m, "fingerprint") /\ ~ InHalf(q, t, m, "ingest")
          /\ \A d : ~ InHalf(imp[i], t, m, d)
      BY <2>3, <2>5 DEF InHalf
    <3>2. hin = hi /\ hfn = hf + 1
      BY <2>3, <3>1, HalfStep
    <3>3. cn = c + 1 /\ sn = s
      BY <2>1, <2>2, <2>5
    <3> HIDE DEF c, cn, s, sn, y, hi, hin, hf, hfn
    <3>4. QED BY <1>4, <1>5, <1>6, <3>2, <3>3
  <2>6. CASE <<t, m>> = r /\ imp[i].done = {"ingest"}
    <3>1. InHalf(imp[i], t, m, "ingest") /\ ~ InHalf(imp[i], t, m, "fingerprint")
          /\ \A d : ~ InHalf(q, t, m, d)
      BY <1>1, <1>2, <2>3, <2>6, IdleImport DEF InHalf
    <3>2. hin = hi - 1 /\ hfn = hf
      BY <2>3, <3>1, HalfStep
    <3>3. cn = c + 1 /\ sn = s
      BY <2>1, <2>2, <2>6
    <3> HIDE DEF c, cn, s, sn, y, hi, hin, hf, hfn
    <3>4. QED BY <1>4, <1>5, <1>6, <3>2, <3>3
  <2>7. QED BY <2>1, <2>4, <2>5, <2>6
<1>8. CASE ImportCommitIngest(i)
  <2>1. rows' = rows /\ imp[i].done \in {{}, {"fingerprint"}}
    BY <1>1, <1>8 DEF ImportCommitIngest, ImportType
  <2>2. cn = c /\ sn = IF <<t, m>> = r THEN s + 1 ELSE s
    BY <1>2, <1>3, <1>8, <2>1 DEF ImportCommitIngest, MergeTyped, CountOf
  <2>3. PICK q \in ImportType :
          /\ Turns(i, q)
          /\ imp[i].done # {} => q = NoImport
          /\ imp[i].done = {} => q.pc = "written" /\ q.row = r /\ q.done = {"ingest"}
    BY <1>1, <1>2, <1>8, EndedTurns DEF ImportCommitIngest
  <2>4. CASE <<t, m>> # r
    <3>1. \A d : ~ InHalf(q, t, m, d) /\ ~ InHalf(imp[i], t, m, d)
      BY <1>2, <2>3, <2>4, IdleImport DEF InHalf
    <3>2. hin = hi /\ hfn = hf
      BY <2>3, <3>1, HalfStep
    <3>3. QED BY <1>4, <1>5, <2>2, <2>4, <3>2
  <2>5. CASE <<t, m>> = r /\ imp[i].done = {}
    <3>1. InHalf(q, t, m, "ingest") /\ ~ InHalf(q, t, m, "fingerprint")
          /\ \A d : ~ InHalf(imp[i], t, m, d)
      BY <2>3, <2>5 DEF InHalf
    <3>2. hin = hi + 1 /\ hfn = hf
      BY <2>3, <3>1, HalfStep
    <3>3. cn = c /\ sn = s + 1
      BY <2>2, <2>5
    <3> HIDE DEF c, cn, s, sn, y, hi, hin, hf, hfn
    <3>4. QED BY <1>4, <1>5, <1>6, <3>2, <3>3
  <2>6. CASE <<t, m>> = r /\ imp[i].done = {"fingerprint"}
    <3>1. InHalf(imp[i], t, m, "fingerprint") /\ ~ InHalf(imp[i], t, m, "ingest")
          /\ \A d : ~ InHalf(q, t, m, d)
      BY <1>1, <1>2, <2>3, <2>6, IdleImport DEF InHalf
    <3>2. hfn = hf - 1 /\ hin = hi
      BY <2>3, <3>1, HalfStep
    <3>3. cn = c /\ sn = s + 1
      BY <2>2, <2>6
    <3> HIDE DEF c, cn, s, sn, y, hi, hin, hf, hfn
    <3>4. QED BY <1>4, <1>5, <1>6, <3>2, <3>3
  <2>7. QED BY <2>1, <2>4, <2>5, <2>6
<1>9. QED BY <1>7, <1>8

\* An import keeps the sources explained.
LEMMA ExplainedImport ==
  ASSUME MergeTyped, MergeTyped', Explained, RowsExclusive, \A w \in Mergers : TaskSound(wk[w]),
         NEW i \in Importers, ImportSound(imp[i]), ImportStep(i)
  PROVE  Explained'
<1>1. ASSUME NEW t \in Tracks, t \notin adrift', NEW m \in Mbids
      PROVE  Balanced(t, m)'
  BY <1>1, BalancedQuietImport, BalancedCommit DEF ImportStep, ImporterStep
<1>2. ASSUME NEW w \in Mergers
      PROVE  MovesItsCounts(wk[w])'
  <2>1. wk' = wk /\ adrift \subseteq adrift'
    BY DEF ImportStep, ImporterStep, ImportWrite, ImportCommitFingerprint, ImportCommitIngest,
           ImportFails, ImportStart, history
  <2>2. wk[w].held \subseteq Rows
    BY DEF MergeTyped, TaskType
  <2>3. \A r \in wk[w].held : rows'[r] = rows[r]
    <3>1. CASE ImportCommitFingerprint(i)
      <4>1. PICK r \in Rows, n \in RowType : r = imp[i].row /\ rows' = [rows EXCEPT ![r] = n]
        BY <3>1, ImportCounts
      <4>2. r \notin wk[w].held
        BY <3>1, <4>1 DEF ImportCommitFingerprint, RowsExclusive
      <4>3. QED BY <2>2, <4>1, <4>2 DEF MergeTyped
    <3>2. CASE ~ ImportCommitFingerprint(i)
      BY <3>2 DEF ImportStep, ImporterStep, ImportWrite, ImportCommitIngest, ImportFails,
                  ImportStart
    <3>3. QED BY <3>1, <3>2
  <2>4. \A r \in wk[w].held : CountOf(r)' = CountOf(r)
    BY <2>3 DEF CountOf
  <2>5. MovesItsCounts(wk[w]) /\ TaskSound(wk[w])
    BY DEF Explained
  <2>6. QED BY <2>1, <2>4, <2>5, MovesOther
<1>3. QED BY <1>1, <1>2 DEF Explained

\* Where no count, source, import or task changes, they stay explained.
LEMMA ExplainedSame ==
  ASSUME Explained, MergeTyped, \A r \in Rows : CountOf(r)' = CountOf(r),
         UNCHANGED <<sources, wk, imp, adrift>>, \A w \in Mergers : TaskSound(wk[w])
  PROVE  Explained'
<1>1. ASSUME NEW t \in Tracks \ adrift, NEW m \in Mbids
      PROVE  Balanced(t, m)'
  <2>1. CountOf(<<t, m>>)' = CountOf(<<t, m>>) /\ sources'[<<t, m>>] = sources[<<t, m>>]
        /\ Way(t, m)' = Way(t, m) /\ \A d : Halves(t, m, d)' = Halves(t, m, d)
    BY RowIsPair, WaySame DEF Halves, Half
  <2>2. Balanced(t, m)
    BY DEF Explained
  <2>3. QED BY <2>1, <2>2, BalancedIs, NextBalanced
<1>2. ASSUME NEW w \in Mergers
      PROVE  MovesItsCounts(wk[w])'
  <2>1. wk[w].held \subseteq Rows /\ wk'[w] = wk[w] /\ adrift \subseteq adrift'
        /\ MovesItsCounts(wk[w]) /\ TaskSound(wk[w])
    BY DEF MergeTyped, TaskType, Explained
  <2>2. QED BY <2>1, MovesOther
<1>3. QED BY <1>1, <1>2 DEF Explained

\* At the start every row has the source it counts.
LEMMA ExplainedInit ==
  ASSUME MergeInit, MergeTyped
  PROVE  Explained
<1>1. \A w \in Mergers : wk[w] = Idle
  BY DEF MergeInit
<1>2. ASSUME NEW t \in Tracks, NEW m \in Mbids
      PROVE  Balanced(t, m)
  <2>1. CountOf(<<t, m>>) = sources[<<t, m>>]
    <3>1. rows[<<t, m>>] = IF <<t, m>> \in Linked THEN NewRow(1) ELSE None
      BY RowIsPair DEF MergeInit
    <3>2. NewRow(1) \in RowType /\ NewRow(1).count = 1
      BY DEF NewRow, RowType
    <3>3. NewRow(1) # None
      BY <3>2, MergeAssumption
    <3>4. sources[<<t, m>>] = IF <<t, m>> \in Linked THEN 1 ELSE 0
      BY RowIsPair DEF MergeInit
    <3>5. QED BY <3>1, <3>2, <3>3, <3>4 DEF CountOf
  <2>2. Way(t, m) = 0
    <3>1. \A w \in Mergers : OnTheWay(w, t, m) = 0
      BY <1>1, IdleTask DEF OnTheWay
    <3>2. QED BY <3>1, WaySum
  <2>3. \A d : Halves(t, m, d) = 0
    <3>1. \A d : Half(t, m, d) = {}
      BY IdleImport DEF MergeInit, Half
    <3>2. QED BY <3>1, FS_EmptySet DEF Halves
  <2>4. sources[<<t, m>>] \in Int
    BY RowIsPair DEF MergeTyped
  <2>5. QED BY <2>1, <2>2, <2>3, <2>4, BalancedIs
<1>3. \A w \in Mergers : MovesItsCounts(wk[w])
  BY <1>1, IdleTask DEF MovesItsCounts
<1>4. QED BY <1>2, <1>3 DEF Explained

-----------------------------------------------------------------------------
(* The invariant *)

\* It holds at the start.
LEMMA MergeInvInit == MergeInit => MergeInv
<1> SUFFICES ASSUME MergeInit PROVE MergeInv
  OBVIOUS
<1>1. MergeTyped
  <2>1. \A n \in {0, 1} : NewRow(n) \in RowType
    BY DEF NewRow, RowType
  <2>2. rows \in [Rows -> RowType \union {None}] /\ sources \in [Rows -> Int]
    BY <2>1 DEF MergeInit
  <2>3. imported \in [Tracks -> Int]
    <3>1. ASSUME NEW t \in Tracks
          PROVE  Cardinality({m \in Mbids : <<t, m>> \in Linked}) \in Int
      <4> DEFINE there == {m \in Mbids : <<t, m>> \in Linked}
      <4>1. there \in SUBSET Mbids /\ IsFiniteSet(Mbids)
        BY MergeAssumption
      <4> HIDE DEF there
      <4>2. IsFiniteSet(there)
        BY <4>1, FS_Subset
      <4>3. Cardinality(there) \in Nat
        BY <4>2, FS_CardinalityType
      <4>4. QED BY <4>3 DEF there
    <3>2. QED BY <3>1 DEF MergeInit
  <2>4. wk \in [Mergers -> TaskType] /\ imp \in [Importers -> ImportType]
    BY IdleTask, IdleImport DEF MergeInit
  <2>5. QED BY <2>2, <2>3, <2>4 DEF MergeInit, MergeTyped
<1>2. RedirectsSound
  BY DEF MergeInit, RedirectsSound
<1>3. \A w \in Mergers : wk[w] = Idle
  BY DEF MergeInit
<1>4. \A i \in Importers : imp[i] = NoImport
  BY DEF MergeInit
<1>5. \A w \in Mergers : TaskSound(wk[w])
  BY <1>3, IdleTask DEF TaskSound
<1>6. \A i \in Importers : ImportSound(imp[i])
  BY <1>4, IdleImport DEF ImportSound
<1>7. RowsExclusive
  BY <1>3, <1>4, IdleTask, IdleImport DEF RowsExclusive
<1>8. GraceKept
  BY <1>3, IdleTask DEF GraceKept, MergeInit
<1>9. CountsConserved /\ Explained
  BY <1>1, ConservedInit, ExplainedInit
<1>10. QED BY <1>1, <1>2, <1>5, <1>6, <1>7, <1>8, <1>9 DEF MergeInv

\* The steps of a worker keep it.
LEMMA InvMerger ==
  ASSUME MergeInv, NEW w \in Mergers, MergerStep(w)
  PROVE  MergeInv'
<1>1. MergeTyped /\ RedirectsSound /\ TaskSound(wk[w]) /\ RowsExclusive /\ GraceKept
      /\ CountsConserved /\ Explained
      /\ \A v \in Mergers : TaskSound(wk[v])
  BY DEF MergeInv
<1>2. MergeTyped'
  BY <1>1, MergerTyped
<1>3. UNCHANGED <<known, redirect, imp>>
  BY DEF MergerStep, TaskStep, MergeMissingMbid, LockRows, MergeMbids, UnknownMbid,
         DisableMbid, Prepare, CommitFingerprint, CommitIngest, TaskFails, WorkerDies, Dequeue,
         musicbrainz
<1>4. RedirectsSound' /\ \A i \in Importers : ImportSound(imp[i])'
  BY <1>3 DEF MergeInv, RedirectsSound, ImportSound
<1>5. \A v \in Mergers : TaskSound(wk[v])'
  BY <1>1, TasksSoundStep
<1>6. RowsExclusive' /\ GraceKept' /\ CountsConserved'
  BY <1>1, <1>2, ExclusiveMerger, GraceMerger, ConservedMerger
<1>7. Explained'
  <2>1. \A t \in Tracks \ adrift', m \in Mbids : Balanced(t, m)'
    BY <1>1, <1>2, BalancedMerger
  <2>2. \A v \in Mergers : MovesItsCounts(wk[v])'
    BY <1>1, <1>2, MovesMerger
  <2>3. QED BY <2>1, <2>2 DEF Explained
<1>8. QED BY <1>2, <1>4, <1>5, <1>6, <1>7 DEF MergeInv

\* The steps of an importer keep it.
LEMMA InvImport ==
  ASSUME MergeInv, NEW i \in Importers, ImportStep(i)
  PROVE  MergeInv'
<1>1. MergeTyped /\ RedirectsSound /\ ImportSound(imp[i]) /\ RowsExclusive /\ GraceKept
      /\ CountsConserved /\ Explained /\ \A w \in Mergers : TaskSound(wk[w])
  BY DEF MergeInv
<1>2. MergeTyped'
  BY <1>1, ImportTyped
<1>3. UNCHANGED <<known, redirect, day, lastKnown, returned, unknownSince, wk>>
  BY DEF ImportStep, ImporterStep, ImportWrite, ImportCommitFingerprint, ImportCommitIngest,
         ImportFails, ImportStart, musicbrainz, redis
<1>4. RedirectsSound' /\ GraceKept'
  BY <1>1, <1>3 DEF RedirectsSound, GraceKept, Exists
<1>5. \A j \in Importers : ImportSound(imp[j])'
  <2>1. PICK q \in ImportType : Turns(i, q) /\ ImportSound(q)
    BY <1>1, ImportTyped
  <2>2. \A j \in Importers : ImportSound(imp[j])
    BY DEF MergeInv
  <2>3. QED BY <2>1, <2>2 DEF Turns, ImportSound
<1>6. \A w \in Mergers : TaskSound(wk[w])'
  <2>1. ASSUME NEW w \in Mergers
        PROVE  \A r \in wk[w].held : rows'[r] = rows[r]
    <3>1. CASE ImportCommitFingerprint(i)
      <4>1. PICK r \in Rows, n \in RowType : r = imp[i].row /\ rows' = [rows EXCEPT ![r] = n]
        BY <1>1, <3>1, ImportCounts
      <4>2. r \notin wk[w].held
        BY <1>1, <3>1, <4>1 DEF ImportCommitFingerprint, RowsExclusive
      <4>3. wk[w].held \subseteq Rows
        BY <1>1 DEF MergeTyped, TaskType
      <4>4. QED BY <1>1, <4>1, <4>2, <4>3 DEF MergeTyped
    <3>2. CASE ~ ImportCommitFingerprint(i)
      BY <3>2 DEF ImportStep, ImporterStep, ImportWrite, ImportCommitIngest, ImportFails,
                  ImportStart
    <3>3. QED BY <3>1, <3>2
  <2>2. QED BY <1>1, <1>3, <2>1, Framed
<1>7. RowsExclusive' /\ CountsConserved' /\ Explained'
  BY <1>1, <1>2, ExclusiveImport, ConservedImport, ExplainedImport
<1>8. QED BY <1>2, <1>4, <1>5, <1>6, <1>7 DEF MergeInv

\* A moderator's edit keeps it.
LEMMA InvToggle ==
  ASSUME MergeInv, NEW r \in Rows, ToggleTrackMbid(r)
  PROVE  MergeInv'
<1>1. MergeTyped /\ RedirectsSound /\ RowsExclusive /\ GraceKept
      /\ CountsConserved /\ Explained /\ \A w \in Mergers : TaskSound(wk[w])
  BY DEF MergeInv
<1>2. UNCHANGED <<known, redirect, day, lastKnown, returned, unknownSince, wk, imp, sources, adrift>>
  BY DEF ToggleTrackMbid, musicbrainz, redis, history
<1>3. PICK n \in RowType :
        rows[r] # None /\ rows' = [rows EXCEPT ![r] = n] /\ n.count = CountOf(r)
  BY <1>1, Toggled
<1>4. n # None /\ \A s \in Rows : rows'[s] = IF s = r THEN n ELSE rows[s]
  BY <1>1, <1>3, MergeAssumption DEF MergeTyped
<1>5. MergeTyped' /\ CountsConserved'
  BY <1>1, ToggleTyped, ConservedToggle
<1>6. RedirectsSound' /\ GraceKept' /\ RowsExclusive'
  BY <1>1, <1>2 DEF RedirectsSound, GraceKept, RowsExclusive, Exists
<1>7. \A i \in Importers : ImportSound(imp[i])'
  BY <1>2 DEF MergeInv, ImportSound
<1>8. ASSUME NEW w \in Mergers
      PROVE  TaskSound(wk[w])'
  <2>1. r \notin wk[w].held /\ wk'[w] = wk[w]
    BY <1>2, MergeAssumption DEF ToggleTrackMbid, Locked
  <2>2. wk[w].held \subseteq Rows
    BY <1>1 DEF MergeTyped, TaskType
  <2>3. \A s \in wk[w].held : rows'[s] = rows[s]
    BY <1>4, <2>1, <2>2
  <2>4. QED BY <1>1, <2>1, <2>3, Framed
<1>9. Explained'
  <2>1. \A s \in Rows : CountOf(s)' = CountOf(s)
    BY <1>3, <1>4 DEF CountOf
  <2>2. QED BY <1>1, <1>2, <2>1, ExplainedSame
<1>10. QED BY <1>5, <1>6, <1>7, <1>8, <1>9 DEF MergeInv

\* MusicBrainz and the API keep it.
LEMMA InvMusicBrainz ==
  ASSUME MergeInv, MbEdit \/ Replicate \/ \E t \in Tracks : Lookup(t)
  PROVE  MergeInv'
<1>1. MergeTyped /\ RedirectsSound /\ RowsExclusive /\ GraceKept
      /\ CountsConserved /\ Explained /\ \A w \in Mergers : TaskSound(wk[w])
  BY DEF MergeInv
<1>2. UNCHANGED <<rows, sources, wk, imp, imported, adrift, unknownSince>>
  BY DEF MbEdit, Replicate, Lookup, redis, history
<1>3. MergeTyped'
  BY <1>1, MusicBrainzTyped
<1>4. RedirectsSound'
  <2>1. CASE MbEdit
    BY <1>1, <2>1, EditSound
  <2>2. CASE ~ MbEdit
    <3>1. UNCHANGED <<known, redirect>>
      BY <2>2 DEF Replicate, Lookup, musicbrainz
    <3>2. QED BY <1>1, <3>1 DEF RedirectsSound
  <2>3. QED BY <2>1, <2>2
<1>5. GraceKept'
  <2>1. CASE MbEdit \/ Replicate
    BY <1>1, <2>1, GraceMusicBrainz
  <2>2. CASE ~ (MbEdit \/ Replicate)
    <3>1. UNCHANGED <<known, redirect, day, lastKnown, returned>>
      BY <2>2 DEF Lookup, musicbrainz
    <3>2. QED BY <1>1, <1>2, <3>1 DEF GraceKept, Exists
  <2>3. QED BY <2>1, <2>2
<1>6. /\ \A w \in Mergers : TaskSound(wk[w])'
      /\ \A i \in Importers : ImportSound(imp[i])'
      /\ RowsExclusive'
  BY <1>1, <1>2 DEF TaskSound, ImportSound, RowsExclusive, MergeInv
<1>7. CountsConserved' /\ Explained'
  <2>1. \A r \in Rows : CountOf(r)' = CountOf(r)
    BY <1>2 DEF CountOf
  <2>2. CountsConserved'
    BY <1>1, <1>2 DEF CountsConserved, CountOf
  <2>3. QED BY <1>1, <1>2, <2>1, <2>2, ExplainedSame
<1>8. QED BY <1>3, <1>4, <1>5, <1>6, <1>7 DEF MergeInv

\* Every step keeps it.
LEMMA MergeInvStep == MergeInv /\ [MergeNext]_merge_vars => MergeInv'
<1> SUFFICES ASSUME MergeInv, [MergeNext]_merge_vars PROVE MergeInv'
  OBVIOUS
<1>1. CASE \E w \in Mergers : MergerStep(w)
  BY <1>1, InvMerger
<1>2. CASE \E i \in Importers : ImportStep(i)
  BY <1>2, InvImport
<1>3. CASE Toggle
  BY <1>3, InvToggle DEF Toggle
<1>4. CASE MbEdit \/ Replicate \/ \E t \in Tracks : Lookup(t)
  BY <1>4, InvMusicBrainz
<1>5. CASE UNCHANGED merge_vars
  <2>1. UNCHANGED <<known, redirect, day, lastKnown, returned, rows, sources, unknownSince, wk,
                    imp, imported, adrift>>
    BY <1>5 DEF merge_vars, musicbrainz, redis, history
  <2>2. MergeTyped' /\ RedirectsSound' /\ RowsExclusive' /\ GraceKept'
    BY <2>1 DEF MergeInv, MergeTyped, RedirectsSound, RowsExclusive, GraceKept, Exists
  <2>3. /\ \A w \in Mergers : TaskSound(wk[w])'
        /\ \A i \in Importers : ImportSound(imp[i])'
    BY <2>1 DEF MergeInv, TaskSound, ImportSound
  <2>4. \A r \in Rows : CountOf(r)' = CountOf(r)
    BY <2>1 DEF CountOf
  <2>5. CountsConserved'
    BY <2>1 DEF MergeInv, CountsConserved, CountOf
  <2>6. Explained'
    BY <2>1, <2>4, ExplainedSame DEF MergeInv
  <2>7. QED BY <2>2, <2>3, <2>5, <2>6 DEF MergeInv
<1>6. QED
  BY <1>1, <1>2, <1>3, <1>4, <1>5 DEF MergeNext, MergerStep, ImportStep, Toggle

\* The inductive invariant of the merges.
THEOREM MergeInvAlways == MergeSpec => []MergeInv
BY MergeInvInit, MergeInvStep, PTL DEF MergeSpec

(* merge_mbids adds up what it has read under FOR UPDATE: no import and no other
   merge, no crash and no prepared transaction left behind makes a count too many
   or too few. *)
THEOREM CountsAreConserved == MergeSpec => []CountsConserved
<1>1. MergeInv => CountsConserved
  BY DEF MergeInv
<1> QED BY <1>1, MergeInvAlways, PTL

(* But for the tracks whose databases were torn apart, track_mbid_source explains
   every count once merges and imports have made both their commits. *)
THEOREM SourcesAreExplained == MergeSpec => []SourcesExplainCounts
<1>1. MergeInv => SourcesExplainCounts
  <2> SUFFICES ASSUME MergeInv, NEW t \in Tracks \ adrift, NEW m \in Mbids,
                      \A w \in Mergers : wk[w].pc = "committed" => t \notin wk[w].tracks
               PROVE  CountOf(<<t, m>>) + Cardinality(Half(t, m, "ingest"))
                        = sources[<<t, m>>] + Cardinality(Half(t, m, "fingerprint"))
    BY DEF SourcesExplainCounts
  <2>1. MergeTyped /\ Balanced(t, m)
    BY DEF MergeInv, Explained
  <2>2. \A w \in Mergers : OnTheWay(w, t, m) = 0
    BY DEF OnTheWay
  <2>3. Way(t, m) = 0
    BY <2>1, <2>2, WaySum
  <2>4. CountOf(<<t, m>>) + Halves(t, m, "ingest") =
          sources[<<t, m>>] + Halves(t, m, "fingerprint") + Way(t, m)
    BY <2>1, BalancedIs
  <2>5. sources[<<t, m>>] \in Int /\ Halves(t, m, "fingerprint") \in Int
    BY <2>1, RowIsPair, HalvesTyped DEF MergeTyped
  <2>6. QED BY <2>3, <2>4, <2>5 DEF Halves
<1> QED BY <1>1, MergeInvAlways, PTL

\* A merge does not disable a link of its target that is enabled.
LEMMA TargetStaysEnabled ==
  ASSUME MergeTyped, NEW k \in TaskType, TaskSound(k), k.pc = "prepared", k.new # None,
         NEW t \in k.tracks, NEW r \in Rows, r = <<t, k.new>>,
         rows[r] # None, ~ rows[r].disabled
  PROVE  ~ Merged(k)[r].disabled
<1>1. k.new # k.mbid /\ t \in k.seen /\ r[1] = t /\ r[2] = k.new
  BY DEF TaskSound
<1> DEFINE a == rows[r]
           n == a.count + rows[<<t, k.mbid>>].count
           both == a.disabled /\ rows[<<t, k.mbid>>].disabled
           q == [a EXCEPT !.count = n, !.disabled = both]
<1>2. Merged(k)[r] = q
  <2>1. Target(t, k) = a
    BY <1>1 DEF Target
  <2>2. Merged(k)[r] = [Target(t, k) EXCEPT !.count = @ + rows[<<t, k.mbid>>].count,
                                            !.disabled = @ /\ rows[<<t, k.mbid>>].disabled]
    BY <1>1 DEF Merged
  <2> HIDE DEF a
  <2>3. QED BY <2>1, <2>2
<1>3. a \in RowType /\ ~ both
  BY RowThere
<1> HIDE DEF a, n, both
<1>4. q.disabled = both
  BY <1>3 DEF RowType
<1> HIDE DEF q
<1>5. QED BY <1>2, <1>3, <1>4

(* An MBID that the bot disables has been unknown to MusicBrainz for the days of
   grace, or had been unknown before and come back. *)
THEOREM DisabledOnlyAfterGrace == MergeSpec => DisabledAfterGrace
<1>1. ASSUME MergeInv, [MergeNext]_merge_vars, NEW r \in Rows, NEW w \in Mergers,
             wk[w].pc = "prepared", wk'[w].pc = "committed", rows[r] # None, ~ rows[r].disabled,
             rows'[r].disabled, rows'[r].into = None
      PROVE  r[2] \in returned \/ day - lastKnown[r[2]] >= UnknownDays
  <2>0. MergeTyped /\ TaskSound(wk[w]) /\ GraceKept
    BY <1>1 DEF MergeInv
  <2>1. PICK k \in TaskType : k = wk[w]
    BY <2>0 DEF MergeTyped
  <2>2. CommitFingerprint(w)
    <3>1. wk' # wk
      BY <1>1
    <3>2. \E v \in Mergers : MergerStep(v)
      BY <1>1, <3>1 DEF MergeNext, MergerStep, MbEdit, Replicate, Lookup, ImporterStep, ImportWrite,
         ImportCommitFingerprint, ImportCommitIngest, ImportFails, ImportStart,
         ToggleTrackMbid, merge_vars
    <3>3. MergerStep(w)
      BY <1>1, <2>0, <3>2, OthersStay
    <3>4. QED BY <1>1, <2>0, <3>3, NotCommitted
  <2>3. PICK t \in Tracks, m \in Mbids : r = <<t, m>>
    BY RowIsPair
  <2>4. CASE k.new = None
    <3>1. rows'[r] = Disabled(k)[r]
      BY <2>1, <2>2, <2>4 DEF CommitFingerprint
    <3>2. r[2] = k.mbid
      BY <1>1, <2>0, <2>1, <3>1, DisabledRow
    <3>3. k.tracks # {}
      BY <1>1, <2>0, <2>1, <2>3, <3>1, DisabledRow
    <3>4. k.mbid \in returned \/ day - lastKnown[k.mbid] >= UnknownDays
      BY <1>1, <2>0, <2>1, <2>4, <3>3 DEF GraceKept
    <3>5. QED BY <3>2, <3>4
  <2>5. CASE k.new # None
    <3>1. rows'[r] = Merged(k)[r] /\ TaskSound(k) /\ k.pc = "prepared"
      BY <1>1, <2>0, <2>1, <2>2, <2>5 DEF CommitFingerprint
    <3>2. CASE t \notin k.tracks \/ m \notin {k.mbid, k.new}
      BY <1>1, <2>0, <2>3, <2>5, <3>1, <3>2, MergedRow
    <3>3. CASE t \in k.tracks /\ m = k.mbid
      <4>1. rows'[r] = [count |-> 0, disabled |-> TRUE, into |-> k.new]
        BY <2>0, <2>3, <2>5, <3>1, <3>3, MergedRow
      <4>2. QED BY <1>1, <2>5, <4>1
    <3>4. CASE t \in k.tracks /\ m = k.new
      BY <1>1, <2>0, <2>3, <2>5, <3>1, <3>4, TargetStaysEnabled
    <3>5. QED BY <3>2, <3>3, <3>4
  <2>6. QED BY <2>4, <2>5
<1>2. MergeInv /\ [MergeNext]_merge_vars =>
        \A r \in Rows, w \in Mergers :
           /\ wk[w].pc = "prepared" /\ wk'[w].pc = "committed"
           /\ rows[r] # None /\ ~ rows[r].disabled
           /\ rows'[r].disabled /\ rows'[r].into = None
           => r[2] \in returned \/ day - lastKnown[r[2]] >= UnknownDays
  BY <1>1
<1> QED BY <1>2, MergeInvAlways, PTL DEF MergeSpec, DisabledAfterGrace
=============================================================================
