-------------------------- MODULE SubmissionImport --------------------------
(***************************************************************************)
(* Importing submissions (acoustid/scripts/import_submissions.py and       *)
(* acoustid/data/submission.py, fingerprint.py, track.py): API processes   *)
(* queue submissions in the ingest database, importers take them one per   *)
(* transaction, look for the audio in the fingerprint database and either  *)
(* count it on the fingerprint it matches or insert a new one.             *)
(*                                                                         *)
(* The ingest and the fingerprint database are two PostgreSQL sessions.    *)
(* session.commit() commits them one after the other, in the order of a    *)
(* Python set, and an importer may die in between.  Until then the writes  *)
(* of an importer are its own: they are kept in its record and applied by  *)
(* the commit of their database.                                           *)
(*                                                                         *)
(* A submission may carry an MBID, the null UUID (which is locked like an  *)
(* MBID and then ignored) or none; PUIDs, metadata and foreign ids, which  *)
(* it may carry besides or instead, go through the same _insert_gid and    *)
(* are left out.  A track is named by the fingerprint it was made for.     *)
(***************************************************************************)
EXTENDS Integers, FiniteSets, Functions

CONSTANTS
  Subs,      \* submissions
  Workers,   \* importer processes
  Audio,     \* fingerprints as submitted; equal audio has an equal simhash
  AudioOf,   \* the audio of each submission
  MbidOf,    \* the MBID of each submission, NullMbid, or NoMbid
  NullMbid,  \* 00000000-0000-0000-0000-000000000000
  NoMbid,
  Score,     \* acoustid_compare2 of two audios, in percent
  Terms,     \* terms that two audios have in common
  MaxCandidates,  \* candidates taken from the index: 20 in the code
  MinPct,    \* percentage of the best candidate's terms that is too few: 10
  Length,    \* length of each audio, in seconds
  Useless,   \* submissions without metadata or with nothing to index
  MaxFp,     \* bound: fingerprint ids that may be allocated
  MaxFaults  \* bound: failed or killed imports

TRACK_MERGE_THRESHOLD == 75
TRACK_GROUP_MERGE_THRESHOLD == 40
FINGERPRINT_MERGE_THRESHOLD == 90
FINGERPRINT_MAX_LENGTH_DIFF == 7

Mbids == {MbidOf[s] : s \in Subs} \ {NullMbid, NoMbid}
FpIds == 1 .. MaxFp
Databases == {"ingest", "fingerprint"}

ASSUME ImportAssumption ==
  /\ IsFiniteSet(Subs) /\ Subs # {} /\ IsFiniteSet(Workers)
  /\ AudioOf \in [Subs -> Audio]
  /\ Score \in [Audio -> [Audio -> 0 .. 100]]
  /\ \A a \in Audio : Score[a][a] = 100 /\ \A b \in Audio : Score[a][b] = Score[b][a]
  /\ Length \in [Audio -> Nat]
  /\ Terms \in [Audio -> [Audio -> Nat]] /\ MaxCandidates \in Nat /\ MinPct \in Nat
  /\ Useless \subseteq Subs
  /\ \A s \in Subs \ Useless : Terms[AudioOf[s]][AudioOf[s]] > 0
  /\ MaxFp \in Nat /\ MaxFaults \in Nat

VARIABLES
  pending,  \* ingest: table pending_submission
  handled,  \* ingest: submissions with handled = true
  sources,  \* ingest: fingerprint_source, [sub, fp]; submission_result with it
  fps,      \* fingerprint: rows [id, audio, track]
  count,    \* fingerprint: submission_count of each fingerprint
  mbids,    \* fingerprint: submission_count of each track_mbid row
  nextFp,   \* fingerprint: the id sequence, never rolled back
  indexed,  \* the fingerprints in the index
  maxDoc,   \* its attribute max_document_id
  imp,      \* the import each worker has under way
  unnamed,  \* history: imports of each track that brought no MBID
  drift,    \* history: counts no source row explains (+), or lost (-)
  slipped,  \* history: audio whose own fingerprint a search missed or refused
  faults    \* history: faults so far

ingest == <<pending, handled, sources>>
fingerprint == <<fps, count, mbids, unnamed>>
index == <<indexed, maxDoc>>
vars == <<ingest, fingerprint, nextFp, index, imp, drift, slipped, faults>>

None == [pc |-> "idle", sub |-> CHOOSE s \in Subs : TRUE, max |-> 0, seen |-> {},
         fp |-> 0, track |-> 0, new |-> FALSE, left |-> {}]

Init ==
  /\ pending = {} /\ handled = {} /\ sources = {}
  /\ fps = {} /\ count = [f \in FpIds |-> 0]
  /\ mbids = [t \in FpIds |-> [m \in Mbids |-> 0]] /\ unnamed = [t \in FpIds |-> 0]
  /\ nextFp = 1
  /\ indexed = {} /\ maxDoc = 0
  /\ imp = [w \in Workers |-> None]
  /\ drift = [f \in FpIds |-> 0] /\ slipped = {} /\ faults = 0

Sub(w) == imp[w].sub
AudioAt(w) == AudioOf[Sub(w)]
HasMbid(w) == MbidOf[Sub(w)] \in Mbids
Busy(w) == imp[w].pc # "idle"

(* The session has an open transaction on the database. *)
Open(w, db) == Busy(w) /\ (imp[w].pc = "commit" => db \in imp[w].left)

(* Advisory locks of the ingest transaction: "import.fp" of the simhash,
   then "import.mbid".  They go when that transaction ends. *)
HoldsFp(w) == Open(w, "ingest") /\ imp[w].pc \notin {"lock_fp"}
HoldsMbid(w) == HoldsFp(w) /\ imp[w].pc # "lock_mbid"

(* Without an MBID no lock is taken: nobody has "the same one". *)
SameMbid(v, w) == MbidOf[Sub(v)] = MbidOf[Sub(w)] /\ MbidOf[Sub(w)] # NoMbid

(* Rows and the trigger's lock in the fingerprint database. *)
HasWritten(w) == Open(w, "fingerprint") /\ imp[w].pc \in {"written", "commit"}
                                        /\ Sub(w) \notin Useless

Goto(w, pc) == imp' = [imp EXCEPT ![w] = [imp[w] EXCEPT !.pc = pc]]

-----------------------------------------------------------------------------
(* insert_submission, and the commit of the API request *)
Submit(s) ==
  /\ s \notin pending \cup handled
  /\ pending' = pending \cup {s}
  /\ UNCHANGED <<handled, sources, fingerprint, nextFp, index, imp, drift, slipped, faults>>

(* Without FOR UPDATE a second importer takes the same submission. *)
PickUnlocked(w) ==
  \E s \in pending :
    /\ imp[w].pc = "idle"
    /\ imp' = [imp EXCEPT ![w] = [None EXCEPT !.pc = "lock_fp", !.sub = s]]
    /\ UNCHANGED <<ingest, fingerprint, nextFp, index, drift, slipped, faults>>

(* SELECT ... FROM pending_submission FOR UPDATE SKIP LOCKED LIMIT 1 *)
Pick(w) ==
  \E s \in pending :
    /\ imp[w].pc = "idle"
    /\ \A v \in Workers : Open(v, "ingest") => Sub(v) # s
    /\ imp' = [imp EXCEPT ![w] = [None EXCEPT !.pc = "lock_fp", !.sub = s]]
    /\ UNCHANGED <<ingest, fingerprint, nextFp, index, drift, slipped, faults>>

(* No lock on the audio: related submissions are imported side by side. *)
LockFpAlways(w) ==
  /\ imp[w].pc = "lock_fp"
  /\ Goto(w, "lock_mbid")
  /\ UNCHANGED <<ingest, fingerprint, nextFp, index, drift, slipped, faults>>

LockFp(w) ==
  /\ imp[w].pc = "lock_fp"
  /\ \A v \in Workers \ {w} : ~(HoldsFp(v) /\ AudioAt(v) = AudioAt(w))
  /\ Goto(w, "lock_mbid")
  /\ UNCHANGED <<ingest, fingerprint, nextFp, index, drift, slipped, faults>>

(* Then "handled" is set; the submission may still turn out to be useless. *)
LockMbid(w) ==
  /\ imp[w].pc = "lock_mbid"
  /\ \A v \in Workers \ {w} : ~(HoldsMbid(v) /\ SameMbid(v, w))
  /\ Goto(w, "locked")
  /\ UNCHANGED <<ingest, fingerprint, nextFp, index, drift, slipped, faults>>

Taken(w) ==
  \E v \in Workers \ {w} :
    \/ imp[w].pc = "lock_fp" /\ HoldsFp(v) /\ AudioAt(v) = AudioAt(w)
    \/ imp[w].pc = "lock_mbid" /\ HoldsMbid(v) /\ SameMbid(v, w)

(* The pending row deleted although the submission was not handled. *)
RelatedDropped(w) ==
  /\ Taken(w)
  /\ pending' = pending \ {Sub(w)}
  /\ imp' = [imp EXCEPT ![w] = None]
  /\ UNCHANGED <<handled, sources, fingerprint, nextFp, index, drift, slipped, faults>>

(* "a related submission is being imported (will be retried)": the pass
   commits nothing and the row stays in the queue. *)
Related(w) ==
  /\ Taken(w)
  /\ imp' = [imp EXCEPT ![w] = None]
  /\ UNCHANGED <<ingest, fingerprint, nextFp, index, drift, slipped, faults>>

(* No metadata, too few unique items, nothing to index, no such source. *)
SkipUseless(w) ==
  /\ imp[w].pc = "locked"
  /\ Sub(w) \in Useless
  /\ imp' = [imp EXCEPT ![w] = [imp[w] EXCEPT !.pc = "commit", !.left = Databases]]
  /\ UNCHANGED <<ingest, fingerprint, nextFp, index, drift, slipped, faults>>

-----------------------------------------------------------------------------
(* FingerprintSearcher._search_directly with fast = False *)

(* The attribute is read before the index is searched ... *)
ReadMax(w) ==
  /\ imp[w].pc = "locked"
  /\ Sub(w) \notin Useless
  /\ imp' = [imp EXCEPT ![w] = [imp[w] EXCEPT !.pc = "index", !.max = maxDoc]]
  /\ UNCHANGED <<ingest, fingerprint, nextFp, index, drift, slipped, faults>>

Common(f, w) == Terms[f.audio][AudioAt(w)]

(* What the index has in common with the audio: the rows with far fewer terms
   than the best one are dropped, then all but the first MaxCandidates.  (Rows
   with equally many come by id.) *)
FromIndex(w) ==
  LET hits == {f \in fps : f.id \in indexed /\ Common(f, w) > 0}
      good == {f \in hits : \A g \in hits : Common(f, w) * 100 > Common(g, w) * MinPct}
      Ahead(f) == {g \in good : \/ Common(g, w) > Common(f, w)
                                \/ Common(g, w) = Common(f, w) /\ g.id < f.id}
  IN {f \in good : Cardinality(Ahead(f)) < MaxCandidates}

(* The audio of w slips past a fingerprint of its own. *)
Slip(w, missed) == slipped' = IF missed THEN slipped \cup {AudioAt(w)} ELSE slipped

(* The first way past it: it is in the index, and not among the candidates. *)
CutOff(w) ==
  \E f \in fps : f.audio = AudioAt(w) /\ f.id \in indexed /\ f \notin FromIndex(w)

SearchIndex(w) ==
  /\ imp[w].pc = "index"
  /\ imp' = [imp EXCEPT ![w] = [imp[w] EXCEPT !.pc = "table", !.seen = {f.id : f \in FromIndex(w)}]]
  /\ Slip(w, CutOff(w))
  /\ UNCHANGED <<ingest, fingerprint, nextFp, index, drift, faults>>

Near(a, b) ==
  /\ Length[a] <= Length[b] + FINGERPRINT_MAX_LENGTH_DIFF
  /\ Length[b] <= Length[a] + FINGERPRINT_MAX_LENGTH_DIFF

(* Only what the index knows: the newest fingerprints are not in it yet. *)
VisibleIndexed(w) == {f \in fps : f.id \in imp[w].seen}

(* ... and the table is searched above it, for what the index lacks. *)
Visible(w) ==
  {f \in fps : f.id \in imp[w].seen \/ (f.id > imp[w].max /\ Common(f, w) > 0)}

Matches(w) ==
  {f \in Visible(w) : /\ Near(f.audio, AudioAt(w))
                      /\ Score[f.audio][AudioAt(w)] > TRACK_MERGE_THRESHOLD}

(* The second way: the locks of its importer went with the ingest half of the
   commit, and the other half is still to come. *)
HalfCommitted(w) ==
  \E v \in Workers : /\ imp[v].pc = "commit" /\ imp[v].left = {"fingerprint"}
                     /\ AudioAt(v) = AudioAt(w)

(* The third: it was committed below max_document_id and never indexed. *)
NeverIndexed(w) ==
  \E f \in fps : f.audio = AudioAt(w) /\ f.id \notin indexed /\ f.id <= imp[w].max

SearchTable(w) ==
  /\ imp[w].pc = "table"
  /\ imp' = [imp EXCEPT ![w] = [imp[w] EXCEPT !.pc = "choose", !.seen = {f.id : f \in Matches(w)}]]
  /\ Slip(w, HalfCommitted(w) \/ NeverIndexed(w))
  /\ UNCHANGED <<ingest, fingerprint, nextFp, index, drift, faults>>

(* ORDER BY score DESC, id *)
Precedes(f, g, a) ==
  \/ Score[f.audio][a] > Score[g.audio][a]
  \/ Score[f.audio][a] = Score[g.audio][a] /\ f.id <= g.id

CanAddFpToTrack(track, a) ==
  \A f \in fps : f.track = track =>
    Near(f.audio, a) /\ Score[f.audio][a] >= TRACK_GROUP_MERGE_THRESHOLD

Candidates(w) ==
  {f \in fps : f.id \in imp[w].seen /\ CanAddFpToTrack(f.track, AudioAt(w))}

(* The fourth: its own track refuses the audio, because two importers that
   passed CanAddFpToTrack at the same time have put fingerprints into it that
   may not share a track. *)
Refused(w) ==
  \E f \in fps : f.audio = AudioAt(w) /\ ~CanAddFpToTrack(f.track, AudioAt(w))

(* The best match whose track accepts the audio gives the track, and the
   fingerprint itself if it is close enough.  (One SELECT for each track of a
   match, taken together here.) *)
ChooseTrack(w) ==
  /\ imp[w].pc = "choose"
  /\ \/ /\ Candidates(w) = {}
        /\ imp' = [imp EXCEPT ![w] = [imp[w] EXCEPT !.pc = "insert", !.seen = {}]]
     \/ \E f \in Candidates(w) :
          /\ \A g \in Candidates(w) : Precedes(f, g, AudioAt(w))
          /\ imp' = [imp EXCEPT ![w] =
               IF Score[f.audio][AudioAt(w)] > FINGERPRINT_MERGE_THRESHOLD
               THEN [imp[w] EXCEPT !.pc = "count", !.seen = {}, !.fp = f.id, !.track = f.track]
               ELSE [imp[w] EXCEPT !.pc = "insert", !.seen = {}, !.track = f.track]]
  /\ Slip(w, Refused(w))
  /\ UNCHANGED <<ingest, fingerprint, nextFp, index, drift, faults>>

-----------------------------------------------------------------------------
(* The writes, each in its own session *)

(* insert_track if there is none, and INSERT INTO fingerprint takes its id.
   Its trigger then queues for the changelog's advisory lock. *)
Insert(w) ==
  /\ imp[w].pc = "insert"
  /\ nextFp <= MaxFp
  /\ imp' = [imp EXCEPT ![w] = [imp[w] EXCEPT
               !.pc = "trigger", !.fp = nextFp, !.new = TRUE,
               !.track = IF imp[w].track = 0 THEN nextFp ELSE imp[w].track]]
  /\ nextFp' = nextFp + 1
  /\ UNCHANGED <<ingest, fingerprint, index, drift, slipped, faults>>

(* The lock is held to the end of the fingerprint transaction. *)
Inserted(w) ==
  /\ imp[w].pc = "trigger"
  /\ \A v \in Workers \ {w} : ~(HasWritten(v) /\ imp[v].new)
  /\ Goto(w, "written")
  /\ UNCHANGED <<ingest, fingerprint, nextFp, index, drift, slipped, faults>>

(* inc_fingerprint_submission_count waits for the row. *)
Counted(w) ==
  /\ imp[w].pc = "count"
  /\ \A v \in Workers \ {w} : ~(HasWritten(v) /\ imp[v].fp = imp[w].fp)
  /\ Goto(w, "written")
  /\ UNCHANGED <<ingest, fingerprint, nextFp, index, drift, slipped, faults>>

(* insert_mbid, called only with an MBID that is not null, waits for another
   transaction that wrote the same track_mbid;
   losing the unique index to it is one of the errors of Fail.  Then come
   fingerprint_source, track_mbid_source, submission_result and the delete
   from pending_submission, none of which can wait. *)
Linked(w) ==
  /\ imp[w].pc = "written"
  /\ \A v \in Workers \ {w} :
       ~(/\ HasWritten(v) /\ imp[v].pc = "commit" /\ HasMbid(w)
         /\ imp[v].track = imp[w].track /\ MbidOf[Sub(v)] = MbidOf[Sub(w)])
  /\ imp' = [imp EXCEPT ![w] = [imp[w] EXCEPT !.pc = "commit", !.left = Databases]]
  /\ UNCHANGED <<ingest, fingerprint, nextFp, index, drift, slipped, faults>>

-----------------------------------------------------------------------------
(* session.commit() *)

(* The databases that are not committed yet; none left ends the pass. *)
CommitOf(w, db) ==
  /\ imp[w].pc = "commit"
  /\ db \in imp[w].left
  /\ imp' = [imp EXCEPT ![w] = IF imp[w].left = {db} THEN None
                               ELSE [imp[w] EXCEPT !.left = imp[w].left \ {db}]]

CommitIngest(w) ==
  /\ CommitOf(w, "ingest")
  /\ handled' = handled \cup {Sub(w)}
  /\ pending' = pending \ {Sub(w)}
  /\ sources' = IF Sub(w) \in Useless THEN sources
                ELSE sources \cup {[sub |-> Sub(w), fp |-> imp[w].fp]}
  /\ UNCHANGED <<fingerprint, nextFp, index, drift, slipped, faults>>

(* What the import adds to the MBIDs of its track. *)
Named(w) ==
  IF HasMbid(w)
  THEN /\ mbids' = [mbids EXCEPT ![imp[w].track][MbidOf[Sub(w)]] = @ + 1]
       /\ UNCHANGED unnamed
  ELSE /\ unnamed' = [unnamed EXCEPT ![imp[w].track] = @ + 1]
       /\ UNCHANGED mbids

(* submission_count set from what the search saw, not submission_count+1:
   only the first of the counts of a fingerprint survives. *)
CommitCountOne(w) ==
  /\ CommitOf(w, "fingerprint")
  /\ Sub(w) \notin Useless
  /\ fps' = IF imp[w].new
            THEN fps \cup {[id |-> imp[w].fp, audio |-> AudioAt(w), track |-> imp[w].track]}
            ELSE fps
  /\ count' = [count EXCEPT ![imp[w].fp] = 1]
  /\ Named(w)
  /\ UNCHANGED <<ingest, nextFp, index, drift, slipped, faults>>

CommitFingerprint(w) ==
  /\ CommitOf(w, "fingerprint")
  /\ Sub(w) \notin Useless
  /\ fps' = IF imp[w].new
            THEN fps \cup {[id |-> imp[w].fp, audio |-> AudioAt(w), track |-> imp[w].track]}
            ELSE fps
  /\ count' = [count EXCEPT ![imp[w].fp] = @ + 1]
  /\ Named(w)
  /\ UNCHANGED <<ingest, nextFp, index, drift, slipped, faults>>

(* Nothing was written to the fingerprint database. *)
CommitNothing(w) ==
  /\ CommitOf(w, "fingerprint")
  /\ Sub(w) \in Useless
  /\ UNCHANGED <<ingest, fingerprint, nextFp, index, drift, slipped, faults>>

(* A statement fails or times out, the index does not answer, the importer
   dies: nothing is committed, and the id sequence keeps what it gave out. *)
Fail(w) ==
  /\ Busy(w)
  /\ imp[w].pc = "commit" => imp[w].left = Databases
  /\ faults < MaxFaults /\ faults' = faults + 1
  /\ imp' = [imp EXCEPT ![w] = None]
  /\ UNCHANGED <<ingest, fingerprint, nextFp, index, drift, slipped>>

(* The second commit fails, or the importer dies before it: one database
   has the import and the other has not. *)
TornCommit(w) ==
  /\ imp[w].pc = "commit"
  /\ imp[w].left # Databases
  /\ faults < MaxFaults /\ faults' = faults + 1
  /\ drift' = IF Sub(w) \in Useless THEN drift
              ELSE [drift EXCEPT ![imp[w].fp] = IF imp[w].left = {"ingest"} THEN @ + 1 ELSE @ - 1]
  /\ imp' = [imp EXCEPT ![w] = None]
  /\ UNCHANGED <<ingest, fingerprint, nextFp, index, slipped>>

-----------------------------------------------------------------------------
(* update_fingerprint_index: rows above max_document_id, in id order.  It has
   read them in a snapshot: one that was committed since may be left out. *)
UpdateIndex ==
  \E read \in SUBSET {f.id : f \in fps} : \E last \in read :
    /\ \A i \in read : maxDoc < i /\ i <= last
    /\ indexed' = indexed \cup read
    /\ maxDoc' = last
    /\ UNCHANGED <<ingest, fingerprint, nextFp, imp, drift, slipped, faults>>

ImportStep(w) ==
  \/ LockFp(w) \/ LockMbid(w) \/ Related(w) \/ SkipUseless(w)
  \/ ReadMax(w) \/ SearchIndex(w) \/ SearchTable(w) \/ ChooseTrack(w)
  \/ Insert(w) \/ Inserted(w) \/ Counted(w) \/ Linked(w)
  \/ CommitIngest(w) \/ CommitFingerprint(w) \/ CommitNothing(w)

Next ==
  \/ \E s \in Subs : Submit(s)
  \/ \E w \in Workers : Pick(w) \/ ImportStep(w) \/ Fail(w) \/ TornCommit(w)
  \/ UpdateIndex

Spec == Init /\ [][Next]_vars

(* The importer loops for ever, and every statement ends or is cancelled. *)
FairSpec == Spec /\ \A w \in Workers : WF_vars(Pick(w) \/ ImportStep(w))

-----------------------------------------------------------------------------
(* Properties *)

States == {"idle", "lock_fp", "lock_mbid", "locked", "index", "table", "choose",
           "insert", "trigger", "count", "written", "commit"}

Import == [pc : States, sub : Subs, max : 0 .. MaxFp, seen : SUBSET FpIds,
           fp : 0 .. MaxFp, track : 0 .. MaxFp, new : BOOLEAN, left : SUBSET Databases]

Typed ==
  /\ pending \subseteq Subs /\ handled \subseteq Subs
  /\ sources \subseteq [sub : Subs, fp : FpIds]
  /\ fps \subseteq [id : FpIds, audio : Audio, track : FpIds]
  /\ count \in [FpIds -> Nat]
  /\ mbids \in [FpIds -> [Mbids -> Nat]] /\ unnamed \in [FpIds -> Nat]
  /\ nextFp \in 1 .. MaxFp + 1
  /\ indexed \subseteq FpIds /\ maxDoc \in 0 .. MaxFp
  /\ imp \in [Workers -> Import]

(* Every variable stays in its set; a submission waits or is handled, never
   both, and no two importers have the same one (FOR UPDATE SKIP LOCKED). *)
TypeOK ==
  /\ Typed
  /\ pending \cap handled = {}
  /\ \A v, w \in Workers : Open(v, "ingest") /\ Open(w, "ingest") /\ Sub(v) = Sub(w) => v = w

(* Imports of fingerprint f with only the other database still to commit. *)
Half(f, db) ==
  Cardinality({w \in Workers : /\ imp[w].pc = "commit" /\ imp[w].left = {db}
                               /\ Sub(w) \notin Useless /\ imp[w].fp = f})

(* Every import is counted once on its fingerprint: submission_count (in the
   fingerprint database) is the number of rows of fingerprint_source (in the
   ingest database), but for imports between their two commits and for those
   that were torn there. *)
CountsExplained ==
  \A f \in FpIds :
    count[f] + Half(f, "fingerprint") =
      Cardinality({r \in sources : r.fp = f}) + Half(f, "ingest") + drift[f]

(* The counts of a track's fingerprints are those of its MBIDs and one for each
   import without an MBID (with metadata or a PUID only, or the null UUID),
   whatever fails in between: all are in one database and under the row locks
   of one transaction. *)
TrackTotals ==
  \A t \in FpIds :
    SumFunctionOnSet(count, {f.id : f \in {g \in fps : g.track = t}}) =
    SumFunctionOnSet(mbids[t], Mbids) + unnamed[t]

(* Audio that is submitted twice does not become two fingerprints, however
   the importers interleave and however far the index lags behind, but for
   the four ways CutOff, HalfCommitted, NeverIndexed and Refused: nothing else
   gets past the locks, the search of index and table, and the choice of the
   track. *)
NoTwins ==
  \A f, g \in fps : f.audio = g.audio /\ f # g => f.audio \in slipped

(* "a related submission is being imported (will be retried)"
   (data/submission.py): no two importers are past the locks with the same
   audio before the first of them has ended. *)
RelatedExcluded ==
  \A v, w \in Workers :
    /\ imp[v].pc \in States \ {"idle", "lock_fp"}
    /\ imp[w].pc \in States \ {"idle", "lock_fp"}
    /\ AudioAt(v) = AudioAt(w)
    => v = w

(* What has been queued is handled in the end: a skipped submission "will be
   retried" (data/submission.py), a failed pass leaves "the queue intact"
   (import_submissions.py), and importers never wait for each other in a
   circle. *)
EventuallyHandled == \A s \in Subs : s \in pending ~> s \in handled
-----------------------------------------------------------------------------
(* The inductive invariant behind them *)

\* Imports that have come to what they write.
Writing == {"trigger", "count", "written", "commit"}

\* An import under way is of a submission in the queue until its ingest half is
\* committed, and of a handled one from there on; its commit ends with the last
\* database.
ImportSound(w) ==
  /\ Busy(w) => Sub(w) \in IF Open(w, "ingest") THEN pending ELSE handled
  /\ imp[w].pc = "commit" <=> imp[w].left # {}
  /\ imp[w].pc \in States \ {"idle", "lock_fp", "lock_mbid", "locked", "commit"} =>
       Sub(w) \notin Useless

\* The transaction of w will write to a fingerprint, and has not committed yet.
Writes(w) ==
  /\ imp[w].pc \in Writing /\ Open(w, "fingerprint")
  /\ imp[w].pc = "commit" => Sub(w) \notin Useless

\* What it writes: a row under an id of its own, or counts on a row that is there.
WriteSound(w) ==
  /\ imp[w].pc \in Writing /\ Sub(w) \notin Useless =>
       imp[w].fp \in 1 .. nextFp - 1 /\ imp[w].track \in FpIds
  /\ imp[w].new => imp[w].pc \in {"trigger", "written", "commit"}
  /\ imp[w].pc = "trigger" => imp[w].new
  /\ Writes(w) =>
       IF imp[w].new THEN /\ \A f \in fps : f.id # imp[w].fp
                          /\ \A v \in Workers \ {w} : Writes(v) => imp[v].fp # imp[w].fp
       ELSE \E f \in fps : f.id = imp[w].fp /\ f.track = imp[w].track

\* Fingerprints have an id each, given out by the sequence; there is no count
\* without one.
RowsSound ==
  /\ \A f, g \in fps : f.id = g.id => f = g
  /\ \A f \in fps : f.id < nextFp
  /\ \A i \in FpIds : count[i] # 0 => \E f \in fps : f.id = i

\* Rows of fingerprint_source are of handled submissions, one of each.
SourcesSound ==
  /\ \A r \in sources : r.sub \in handled
  /\ \A q, r \in sources : q.sub = r.sub => q = r

HistorySound == drift \in [FpIds -> Int] /\ slipped \subseteq Audio /\ faults \in Nat

\* The import of w ends in a new fingerprint, and has not committed it yet.
Inserting(w) ==
  \/ imp[w].pc \in {"insert", "trigger"}
  \/ imp[w].pc \in {"written", "commit"} /\ imp[w].new /\ Open(w, "fingerprint")

\* The audio of two imports that hold "import.fp" is not the same.
LocksHeld ==
  \A v, w \in Workers : HoldsFp(v) /\ HoldsFp(w) /\ AudioAt(v) = AudioAt(w) => v = w

\* What is indexed was committed.
IndexSound == \A i \in indexed : \E f \in fps : f.id = i

\* When the table is searched, the fingerprints of the audio that were indexed
\* when max was read are among the candidates, unless it slipped past one.
CandidatesSound(w) ==
  /\ imp[w].pc \in {"index", "table"} => imp[w].max <= maxDoc
  /\ imp[w].pc = "table" /\ AudioAt(w) \notin slipped =>
       \A f \in fps : f.audio = AudioAt(w) /\ f.id \in indexed /\ f.id <= imp[w].max =>
                       f.id \in imp[w].seen

\* The search is over and nobody else inserts the audio; what has it was found,
\* and if the import inserts, nothing has it; unless it slipped past the search.
Alone(w) ==
  /\ Inserting(w) \/ imp[w].pc = "choose"
  /\ AudioAt(w) \notin slipped
  => /\ \A v \in Workers \ {w} : Inserting(v) => AudioAt(v) # AudioAt(w)
     /\ \A f \in fps : f.audio = AudioAt(w) => imp[w].pc = "choose" /\ f.id \in imp[w].seen

ImportInv ==
  /\ TypeOK /\ HistorySound /\ RowsSound /\ SourcesSound /\ IndexSound /\ LocksHeld
  /\ CountsExplained /\ TrackTotals /\ NoTwins
  /\ \A w \in Workers : ImportSound(w) /\ WriteSound(w) /\ CandidatesSound(w) /\ Alone(w)
=============================================================================
