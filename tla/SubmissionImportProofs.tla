------------------------ MODULE SubmissionImportProofs ------------------------
(***************************************************************************)
(* Proofs about SubmissionImport, for any sets of submissions, importers   *)
(* and audios, any scores and lengths, and any number of faults.           *)
(***************************************************************************)
EXTENDS SubmissionImport, Sums

StepOf(w) == Pick(w) \/ ImportStep(w) \/ Fail(w) \/ TornCommit(w)

\* The import of w ends, and others go on as they are.
Ends(w) == imp' = [imp EXCEPT ![w] = None]

-----------------------------------------------------------------------------
(* Types *)

\* The import of an idle importer is typed.
LEMMA NoneTyped == None \in Import /\ None.pc = "idle" /\ None.left = {} /\ ~ None.new
BY ImportAssumption DEF None, Import, States, Databases

\* There are finitely many MBIDs.
LEMMA MbidsFinite == IsFiniteSet(Mbids)
<1> DEFINE f == [s \in Subs |-> MbidOf[s]]
           T == {MbidOf[s] : s \in Subs}
<1>1. f \in Surjection(Subs, T)
  BY DEF Surjection
<1>2. Mbids \subseteq T
  BY DEF Mbids
<1> HIDE DEF f, T
<1>3. IsFiniteSet(T)
  BY <1>1, ImportAssumption, FS_Surjection
<1>4. QED BY <1>2, <1>3, FS_Subset

\* The initial state is typed.
LEMMA InitTyped == Init => Typed
BY ImportAssumption, NoneTyped DEF Init, Typed, FpIds

\* An importer takes a submission with a fresh import.
LEMMA PickTyped ==
  ASSUME Typed, NEW w \in Workers, NEW s \in Subs
  PROVE  [None EXCEPT !.pc = "lock_fp", !.sub = s] \in Import
BY NoneTyped DEF Import, States

\* A count that goes up is still a count.
LEMMA OneMore ==
  ASSUME NEW S, NEW f \in [S -> Nat], NEW x \in S
  PROVE  [f EXCEPT ![x] = @ + 1] \in [S -> Nat]
OBVIOUS

\* The submission and the audio of an import.
LEMMA SubIn ==
  ASSUME Typed, NEW w \in Workers
  PROVE  Sub(w) \in Subs /\ AudioAt(w) \in Audio
<1>1. Sub(w) \in Subs
  BY DEF Typed, Import, Sub
<1>2. QED BY <1>1, ImportAssumption DEF AudioAt

\* What an import commits is counted on a fingerprint and a track that exist.
LEMMA WrittenIn ==
  ASSUME Typed, NEW w \in Workers, WriteSound(w), Sub(w) \notin Useless, imp[w].pc \in Writing
  PROVE  imp[w].fp \in FpIds /\ imp[w].track \in FpIds /\ imp[w].fp < nextFp
<1>1. imp[w].fp \in 1 .. nextFp - 1 /\ imp[w].track \in FpIds
  BY DEF WriteSound
<1>2. nextFp \in 1 .. MaxFp + 1 /\ MaxFp \in Nat
  BY ImportAssumption DEF Typed
<1>3. QED BY <1>1, <1>2 DEF FpIds

\* The two searches: what they find are ids of fingerprints.
LEMMA SearchEffect ==
  ASSUME Typed, NEW w \in Workers, SearchIndex(w) \/ SearchTable(w)
  PROVE  /\ imp' \in [Workers -> Import] /\ imp'[w].sub = imp[w].sub /\ imp'[w].max = imp[w].max
         /\ imp'[w].new = imp[w].new /\ imp'[w].left = imp[w].left
         /\ SearchIndex(w) =>
              /\ imp[w].pc = "index" /\ imp'[w].pc = "table"
              /\ imp'[w].seen = {f.id : f \in FromIndex(w)}
         /\ SearchTable(w) =>
              /\ imp[w].pc = "table" /\ imp'[w].pc = "choose"
              /\ imp'[w].seen = {f.id : f \in Matches(w)}
<1>0. imp[w] \in Import /\ imp \in [Workers -> Import] /\ \A f \in fps : f.id \in FpIds
  BY DEF Typed
<1>1. CASE SearchIndex(w)
  <2>1. PICK S : S = {f.id : f \in FromIndex(w)}
    OBVIOUS
  <2>2. S \subseteq FpIds
    BY <1>0, <2>1 DEF FromIndex
  <2>3. imp[w].pc = "index" /\ imp' = [imp EXCEPT ![w] = [imp[w] EXCEPT !.pc = "table", !.seen = S]]
    BY <1>1, <2>1 DEF SearchIndex
  <2>4. [imp[w] EXCEPT !.pc = "table", !.seen = S] \in Import
    BY <1>0, <2>2 DEF Import, States
  <2>5. imp' \in [Workers -> Import]
    BY <1>0, <2>3, <2>4
  <2>6. /\ imp'[w].sub = imp[w].sub /\ imp'[w].max = imp[w].max /\ imp'[w].pc = "table"
        /\ imp'[w].new = imp[w].new /\ imp'[w].left = imp[w].left /\ imp'[w].seen = S
    BY <1>0, <2>3 DEF Import
  <2>7. ~ SearchTable(w)
    BY <2>3 DEF SearchTable
  <2>8. QED BY <2>1, <2>3, <2>5, <2>6, <2>7
<1>2. CASE SearchTable(w)
  <2>1. PICK S : S = {f.id : f \in Matches(w)}
    OBVIOUS
  <2>2. S \subseteq FpIds
    BY <1>0, <2>1 DEF Matches, Visible
  <2>3. imp[w].pc = "table" /\ imp' = [imp EXCEPT ![w] = [imp[w] EXCEPT !.pc = "choose", !.seen = S]]
    BY <1>2, <2>1 DEF SearchTable
  <2>4. [imp[w] EXCEPT !.pc = "choose", !.seen = S] \in Import
    BY <1>0, <2>2 DEF Import, States
  <2>5. imp' \in [Workers -> Import]
    BY <1>0, <2>3, <2>4
  <2>6. /\ imp'[w].sub = imp[w].sub /\ imp'[w].max = imp[w].max /\ imp'[w].pc = "choose"
        /\ imp'[w].new = imp[w].new /\ imp'[w].left = imp[w].left /\ imp'[w].seen = S
    BY <1>0, <2>3 DEF Import
  <2>7. ~ SearchIndex(w)
    BY <2>3 DEF SearchIndex
  <2>8. QED BY <2>1, <2>3, <2>5, <2>6, <2>7
<1>3. QED BY <1>1, <1>2

\* The choice ends with a fingerprint to count on, or without one close enough.
LEMMA ChooseEffect ==
  ASSUME Typed, NEW w \in Workers, ChooseTrack(w)
  PROVE  /\ imp' \in [Workers -> Import]
         /\ imp[w].pc = "choose" /\ imp'[w].sub = imp[w].sub
         /\ imp'[w].new = imp[w].new /\ imp'[w].left = imp[w].left
         /\ \/ /\ imp'[w].pc = "insert"
               /\ \A g \in Candidates(w) :
                    ~ (Score[g.audio][AudioAt(w)] > FINGERPRINT_MERGE_THRESHOLD)
            \/ /\ imp'[w].pc = "count"
               /\ \E f \in fps : f.id = imp'[w].fp /\ f.track = imp'[w].track
<1>0. imp[w] \in Import /\ imp \in [Workers -> Import] /\ imp[w].pc = "choose" /\ MaxFp \in Nat
  BY ImportAssumption DEF Typed, ChooseTrack
<1>1. CASE /\ Candidates(w) = {}
           /\ imp' = [imp EXCEPT ![w] = [imp[w] EXCEPT !.pc = "insert", !.seen = {}]]
  <2>1. [imp[w] EXCEPT !.pc = "insert", !.seen = {}] \in Import
    BY <1>0 DEF Import, States
  <2>2. imp' \in [Workers -> Import]
    BY <1>0, <1>1, <2>1
  <2>3. /\ imp'[w].pc = "insert" /\ imp'[w].sub = imp[w].sub
        /\ imp'[w].new = imp[w].new /\ imp'[w].left = imp[w].left
    BY <1>0, <1>1 DEF Import
  <2>4. QED BY <1>0, <1>1, <2>2, <2>3
<1>2. CASE ~ (/\ Candidates(w) = {}
              /\ imp' = [imp EXCEPT ![w] = [imp[w] EXCEPT !.pc = "insert", !.seen = {}]])
  <2>1. PICK f \in Candidates(w) :
          /\ \A g \in Candidates(w) : Precedes(f, g, AudioAt(w))
          /\ imp' = [imp EXCEPT ![w] =
               IF Score[f.audio][AudioAt(w)] > FINGERPRINT_MERGE_THRESHOLD
               THEN [imp[w] EXCEPT !.pc = "count", !.seen = {}, !.fp = f.id, !.track = f.track]
               ELSE [imp[w] EXCEPT !.pc = "insert", !.seen = {}, !.track = f.track]]
    BY <1>2 DEF ChooseTrack
  <2>2. f \in fps /\ \A g \in Candidates(w) : g \in fps
    BY DEF Candidates
  <2>3. f.id \in 0 .. MaxFp /\ f.track \in 0 .. MaxFp
    BY <1>0, <2>2 DEF FpIds, Typed
  <2>4. CASE Score[f.audio][AudioAt(w)] > FINGERPRINT_MERGE_THRESHOLD
    <3>1. PICK r : r = [imp[w] EXCEPT !.pc = "count", !.seen = {}, !.fp = f.id, !.track = f.track]
      OBVIOUS
    <3>2. r \in Import
      BY <1>0, <2>3, <3>1 DEF Import, States
    <3>3. /\ r.pc = "count" /\ r.sub = imp[w].sub /\ r.new = imp[w].new
          /\ r.left = imp[w].left /\ r.fp = f.id /\ r.track = f.track
      BY <1>0, <3>1 DEF Import
    <3>4. imp' = [imp EXCEPT ![w] = r]
      BY <2>1, <2>4, <3>1
    <3>5. imp' \in [Workers -> Import] /\ imp'[w] = r
      BY <1>0, <3>2, <3>4
    <3>6. QED BY <1>0, <2>2, <3>3, <3>5
  <2>5. CASE ~ (Score[f.audio][AudioAt(w)] > FINGERPRINT_MERGE_THRESHOLD)
    <3>1. PICK r : r = [imp[w] EXCEPT !.pc = "insert", !.seen = {}, !.track = f.track]
      OBVIOUS
    <3>2. r \in Import
      BY <1>0, <2>3, <3>1 DEF Import, States
    <3>3. r.pc = "insert" /\ r.sub = imp[w].sub /\ r.new = imp[w].new /\ r.left = imp[w].left
      BY <1>0, <3>1 DEF Import
    <3>4. imp' = [imp EXCEPT ![w] = r]
      BY <2>1, <2>5, <3>1
    <3>5. imp' \in [Workers -> Import] /\ imp'[w] = r
      BY <1>0, <3>2, <3>4
    <3>6. ASSUME NEW g \in Candidates(w)
          PROVE  ~ (Score[g.audio][AudioAt(w)] > FINGERPRINT_MERGE_THRESHOLD)
      <4>1. \A h \in fps : Score[h.audio][AudioAt(w)] \in 0 .. 100
        BY ImportAssumption, SubIn DEF Typed
      <4>2. PICK x, y : x = Score[f.audio][AudioAt(w)] /\ y = Score[g.audio][AudioAt(w)]
        OBVIOUS
      <4>3. x \in 0 .. 100 /\ y \in 0 .. 100
        BY <2>2, <4>1, <4>2
      <4>4. x > y \/ x = y
        BY <2>1, <4>2 DEF Precedes
      <4>5. ~ (x > FINGERPRINT_MERGE_THRESHOLD)
        BY <2>5, <4>2
      <4>6. ~ (y > FINGERPRINT_MERGE_THRESHOLD)
        BY <4>3, <4>4, <4>5 DEF FINGERPRINT_MERGE_THRESHOLD
      <4>7. QED BY <4>2, <4>6
    <3>7. QED BY <1>0, <3>3, <3>5, <3>6
  <2>6. QED BY <2>4, <2>5
<1>3. QED BY <1>1, <1>2

\* Each step of an importer keeps the types.
LEMMA StepTyped ==
  ASSUME Typed, NEW w \in Workers, \A v \in Workers : WriteSound(v),
         StepOf(w)
  PROVE  Typed'
<1> USE DEF Typed, ingest, fingerprint, index, Goto, CommitOf, Writing
<1>0. imp[w] \in Import /\ None \in Import /\ MaxFp \in Nat
  BY NoneTyped, ImportAssumption
<1>1. CASE Pick(w)
  BY <1>1, PickTyped DEF Pick
<1>2. CASE LockFp(w)
  BY <1>2, <1>0 DEF LockFp, Import, States
<1>3. CASE LockMbid(w)
  BY <1>3, <1>0 DEF LockMbid, Import, States
<1>4. CASE Related(w)
  BY <1>4, <1>0 DEF Related
<1>5. CASE SkipUseless(w)
  BY <1>5, <1>0 DEF SkipUseless, Import, States
<1>6. CASE ReadMax(w)
  BY <1>6, <1>0 DEF ReadMax, Import, States
<1>7. CASE SearchIndex(w) \/ SearchTable(w) \/ ChooseTrack(w)
  <2>1. imp' \in [Workers -> Import]
    BY <1>7, SearchEffect, ChooseEffect
  <2>2. UNCHANGED <<pending, handled, sources, fps, count, mbids, unnamed, nextFp, indexed, maxDoc>>
    BY <1>7 DEF SearchIndex, SearchTable, ChooseTrack
  <2>3. QED BY <2>1, <2>2
<1>8. CASE Insert(w)
  <2>1. nextFp \in 0 .. MaxFp /\ nextFp + 1 \in 1 .. MaxFp + 1
    BY <1>8, <1>0 DEF Insert
  <2>2. [imp[w] EXCEPT !.pc = "trigger", !.fp = nextFp, !.new = TRUE,
                       !.track = IF imp[w].track = 0 THEN nextFp ELSE imp[w].track] \in Import
    BY <2>1, <1>0 DEF Import, States
  <2>3. QED BY <1>8, <2>1, <2>2 DEF Insert
<1>9. CASE Inserted(w)
  BY <1>9, <1>0 DEF Inserted, Import, States
<1>10. CASE Counted(w)
  BY <1>10, <1>0 DEF Counted, Import, States
<1>11. CASE Linked(w)
  BY <1>11, <1>0 DEF Linked, Import, States
<1>12. CASE CommitIngest(w)
  <2>1. imp' \in [Workers -> Import]
    BY <1>12, <1>0 DEF CommitIngest, Import
  <2>2. Sub(w) \in Subs
    BY <1>0 DEF Import, Sub
  <2>3. sources' \subseteq [sub : Subs, fp : FpIds]
    <3>1. CASE Sub(w) \in Useless
      BY <1>12, <3>1 DEF CommitIngest
    <3>2. CASE Sub(w) \notin Useless
      <4>1. imp[w].fp \in FpIds
        BY <1>12, <3>2, <1>0, WrittenIn DEF CommitIngest
      <4>2. QED BY <1>12, <3>2, <2>2, <4>1 DEF CommitIngest
    <3>3. QED BY <3>1, <3>2
  <2>4. QED BY <1>12, <2>1, <2>2, <2>3 DEF CommitIngest
<1>13. CASE CommitFingerprint(w)
  <2>1. imp' \in [Workers -> Import]
    BY <1>13, <1>0 DEF CommitFingerprint, Import
  <2>2. imp[w].fp \in FpIds /\ imp[w].track \in FpIds
    BY <1>13, <1>0, WrittenIn DEF CommitFingerprint
  <2>3. AudioAt(w) \in Audio
    BY <1>0, SubIn
  <2>4. fps' \subseteq [id : FpIds, audio : Audio, track : FpIds]
    BY <1>13, <2>2, <2>3 DEF CommitFingerprint
  <2>5. count' \in [FpIds -> Nat]
    <3>1. count' = [count EXCEPT ![imp[w].fp] = @ + 1]
      BY <1>13 DEF CommitFingerprint
    <3>2. QED BY <2>2, <3>1, OneMore
  <2>6. mbids' \in [FpIds -> [Mbids -> Nat]] /\ unnamed' \in [FpIds -> Nat]
    <3>1. Named(w)
      BY <1>13 DEF CommitFingerprint
    <3>2. PICK t, m : t = imp[w].track /\ m = MbidOf[Sub(w)]
      OBVIOUS
    <3>3. CASE HasMbid(w)
      <4>1. mbids' = [mbids EXCEPT ![t] = [mbids[t] EXCEPT ![m] = @ + 1]] /\ unnamed' = unnamed
        BY <3>1, <3>2, <3>3 DEF Named
      <4>2. [mbids[t] EXCEPT ![m] = @ + 1] \in [Mbids -> Nat]
        BY <2>2, <3>2, <3>3, OneMore DEF HasMbid
      <4>3. QED BY <2>2, <3>2, <4>1, <4>2
    <3>4. CASE ~ HasMbid(w)
      <4>1. unnamed' = [unnamed EXCEPT ![t] = @ + 1] /\ mbids' = mbids
        BY <3>1, <3>2, <3>4 DEF Named
      <4>2. unnamed' \in [FpIds -> Nat]
        BY <2>2, <3>2, <4>1, OneMore
      <4>3. QED BY <4>1, <4>2
    <3>5. QED BY <3>3, <3>4
  <2>7. QED BY <1>13, <2>1, <2>4, <2>5, <2>6 DEF CommitFingerprint
<1>14. CASE CommitNothing(w)
  BY <1>14, <1>0 DEF CommitNothing, Import, States
<1>15. CASE Fail(w)
  BY <1>15, <1>0 DEF Fail
<1>16. CASE TornCommit(w)
  BY <1>16, <1>0 DEF TornCommit
<1> QED
  BY <1>1, <1>2, <1>3, <1>4, <1>5, <1>6, <1>7, <1>8, <1>9, <1>10, <1>11, <1>12, <1>13, <1>14,
     <1>15, <1>16 DEF StepOf, ImportStep
-----------------------------------------------------------------------------
(* What a step does to the imports *)

\* A step of one importer leaves the imports of the others alone.
LEMMA StepFrame ==
  ASSUME Typed, NEW w \in Workers, StepOf(w)
  PROVE  /\ \A v \in Workers \ {w} : imp'[v] = imp[v]
         /\ UNCHANGED <<indexed, maxDoc>>
<1> USE DEF Typed, ingest, fingerprint, index, Goto, CommitOf
<1>1. CASE Pick(w) \/ LockFp(w) \/ LockMbid(w) \/ Related(w) \/ SkipUseless(w) \/ ReadMax(w)
  BY <1>1 DEF Pick, LockFp, LockMbid, Related, SkipUseless, ReadMax
<1>2. CASE SearchIndex(w) \/ SearchTable(w) \/ ChooseTrack(w)
  BY <1>2 DEF SearchIndex, SearchTable, ChooseTrack
<1>3. CASE Insert(w) \/ Inserted(w) \/ Counted(w) \/ Linked(w)
  BY <1>3 DEF Insert, Inserted, Counted, Linked
<1>4. CASE CommitIngest(w) \/ CommitFingerprint(w) \/ CommitNothing(w)
  BY <1>4 DEF CommitIngest, CommitFingerprint, CommitNothing
<1>5. CASE Fail(w) \/ TornCommit(w)
  BY <1>5 DEF Fail, TornCommit
<1> QED BY <1>1, <1>2, <1>3, <1>4, <1>5 DEF StepOf, ImportStep

\* Locks, transactions and what is to be written are of a submission that the
\* import had before.
Onward(w) ==
  /\ Sub(w)' = Sub(w)
  /\ HoldsFp(w)' => HoldsFp(w) \/ LockFp(w)
  /\ Open(w, "ingest")' => Open(w, "ingest")
  /\ Inserting(w)' => Inserting(w) \/ ChooseTrack(w)
  /\ Writes(w)' => \/ ChooseTrack(w) \/ Insert(w)
                   \/ /\ Writes(w) /\ imp'[w].fp = imp[w].fp /\ imp'[w].track = imp[w].track
                      /\ imp'[w].new = imp[w].new

\* An import begins, ends, or goes on.
LEMMA StepShape ==
  ASSUME Typed, NEW w \in Workers, WriteSound(w), StepOf(w)
  PROVE  Pick(w) \/ Ends(w) \/ Onward(w)
<1> USE DEF Onward, Goto, Sub, HoldsFp, Open, Busy, Inserting, Writes, Writing
<1>0. imp[w] \in Import /\ imp \in [Workers -> Import]
  BY DEF Typed
<1>1. CASE LockFp(w)
  BY <1>1, <1>0 DEF LockFp, Import
<1>2. CASE LockMbid(w)
  BY <1>2, <1>0 DEF LockMbid, Import
<1>3. CASE Related(w)
  BY <1>3 DEF Related, Ends
<1>4. CASE SkipUseless(w)
  BY <1>4, <1>0 DEF SkipUseless, Import, WriteSound
<1>5. CASE ReadMax(w)
  BY <1>5, <1>0 DEF ReadMax, Import
<1>6. CASE SearchIndex(w) \/ SearchTable(w) \/ ChooseTrack(w)
  <2>1. /\ imp'[w].sub = imp[w].sub /\ imp[w].pc \in {"index", "table", "choose"}
        /\ imp'[w].pc \in {"table", "choose"} \/ ChooseTrack(w)
    BY <1>6, SearchEffect, ChooseEffect
  <2>2. HoldsFp(w) /\ Open(w, "ingest") /\ Sub(w)' = Sub(w)
    BY <2>1
  <2>3. CASE ChooseTrack(w)
    <3> HIDE DEF HoldsFp, Open, Sub
    <3>1. QED BY <2>2, <2>3
  <2>4. CASE imp'[w].pc \in {"table", "choose"}
    BY <2>2, <2>4
  <2>5. QED BY <2>1, <2>3, <2>4
<1>7. CASE Insert(w)
  <2>1. imp[w].pc = "insert" /\ imp'[w].sub = imp[w].sub /\ imp'[w].pc = "trigger"
    BY <1>7, <1>0 DEF Insert, Import
  <2>2. HoldsFp(w) /\ Open(w, "ingest") /\ Inserting(w)
    BY <2>1
  <2> HIDE DEF HoldsFp, Open, Inserting
  <2>3. QED BY <1>7, <2>1, <2>2
<1>8. CASE Inserted(w)
  BY <1>8, <1>0 DEF Inserted, Import, WriteSound
<1>9. CASE Counted(w)
  BY <1>9, <1>0 DEF Counted, Import, WriteSound
<1>10. CASE Linked(w)
  BY <1>10, <1>0 DEF Linked, Import, Databases
<1>11. ASSUME NEW db, CommitOf(w, db) PROVE Ends(w) \/ Onward(w)
  BY <1>11, <1>0 DEF CommitOf, Ends, Import
<1>12. CASE CommitIngest(w) \/ CommitFingerprint(w) \/ CommitNothing(w)
  BY <1>11, <1>12 DEF CommitIngest, CommitFingerprint, CommitNothing
<1>13. CASE Fail(w) \/ TornCommit(w)
  BY <1>13 DEF Fail, TornCommit, Ends
<1> QED
  BY <1>1, <1>2, <1>3, <1>4, <1>5, <1>6, <1>7, <1>8, <1>9, <1>10, <1>12, <1>13
     DEF StepOf, ImportStep

\* An import that ends holds nothing and writes nothing any more.
LEMMA EndedShape ==
  ASSUME Typed, NEW w \in Workers, Ends(w)
  PROVE  /\ ~ Busy(w)' /\ ~ HoldsFp(w)' /\ ~ Open(w, "ingest")' /\ ~ Inserting(w)' /\ ~ Writes(w)'
         /\ imp'[w].left = {} /\ ~ imp'[w].new
<1>1. imp'[w] = None
  BY DEF Typed, Ends
<1>2. QED
  BY <1>1, NoneTyped DEF Busy, HoldsFp, Open, Inserting, Writes, Writing

\* Neither has one that only begins; its submission waits and nobody has it.
LEMMA PickedShape ==
  ASSUME Typed, NEW w \in Workers, Pick(w)
  PROVE  /\ Sub(w)' \in pending /\ imp'[w].pc = "lock_fp" /\ imp'[w].left = {} /\ ~ imp'[w].new
         /\ ~ HoldsFp(w)' /\ ~ Inserting(w)' /\ ~ Writes(w)'
         /\ \A v \in Workers : Open(v, "ingest") => Sub(v) # Sub(w)'
<1>1. PICK s \in pending :
        /\ \A v \in Workers : Open(v, "ingest") => Sub(v) # s
        /\ imp' = [imp EXCEPT ![w] = [None EXCEPT !.pc = "lock_fp", !.sub = s]]
  BY DEF Pick
<1>2. imp'[w].sub = s /\ imp'[w].pc = "lock_fp" /\ imp'[w].left = {} /\ ~ imp'[w].new
  BY <1>1, NoneTyped DEF Typed, Import
<1>3. QED BY <1>1, <1>2 DEF Sub, HoldsFp, Inserting, Writes, Writing, Open

\* Only the commits change tables, and only searches what has slipped past one.
LEMMA StepTables ==
  ASSUME Typed, NEW w \in Workers, StepOf(w)
  PROVE  /\ UNCHANGED ingest \/ CommitIngest(w)
         /\ UNCHANGED fingerprint \/ CommitFingerprint(w)
         /\ UNCHANGED slipped \/ SearchIndex(w) \/ SearchTable(w) \/ ChooseTrack(w)
         /\ slipped \subseteq slipped'
         /\ UNCHANGED nextFp \/ Insert(w)
         /\ UNCHANGED drift \/ TornCommit(w)
<1> USE DEF ingest, fingerprint, index
<1>1. CASE Pick(w) \/ LockFp(w) \/ LockMbid(w) \/ Related(w) \/ SkipUseless(w) \/ ReadMax(w)
  BY <1>1 DEF Pick, LockFp, LockMbid, Related, SkipUseless, ReadMax
<1>2. CASE SearchIndex(w) \/ SearchTable(w) \/ ChooseTrack(w)
  BY <1>2 DEF SearchIndex, SearchTable, ChooseTrack, Slip
<1>3. CASE Insert(w) \/ Inserted(w) \/ Counted(w) \/ Linked(w)
  BY <1>3 DEF Insert, Inserted, Counted, Linked
<1>4. CASE CommitIngest(w)
  BY <1>4 DEF CommitIngest
<1>5. CASE CommitFingerprint(w)
  BY <1>5 DEF CommitFingerprint
<1>6. CASE CommitNothing(w)
  BY <1>6 DEF CommitNothing
<1>7. CASE Fail(w) \/ TornCommit(w)
  BY <1>7 DEF Fail, TornCommit
<1> QED BY <1>1, <1>2, <1>3, <1>4, <1>5, <1>6, <1>7 DEF StepOf, ImportStep

-----------------------------------------------------------------------------
(* Locks and the queue *)

\* "import.fp" is taken by one importer at a time.
LEMMA StepLocks ==
  ASSUME Typed, LocksHeld, NEW w \in Workers, WriteSound(w), StepOf(w)
  PROVE  LocksHeld'
<1>1. SUFFICES ASSUME NEW u \in Workers, NEW v \in Workers, HoldsFp(u)', HoldsFp(v)',
                      AudioAt(u)' = AudioAt(v)', u # v
               PROVE  FALSE
  BY DEF LocksHeld
<1>2. ASSUME NEW x \in Workers, HoldsFp(x)'
      PROVE  AudioAt(x)' = AudioAt(x) /\ (HoldsFp(x) \/ (x = w /\ LockFp(w)))
  <2>1. CASE x = w
    <3>1. Onward(w)
      <4>1. HoldsFp(w)'
        BY <1>2, <2>1 DEF HoldsFp, Open, Busy
      <4>2. QED BY <4>1, StepShape, EndedShape, PickedShape
    <3>2. QED BY <1>2, <2>1, <3>1 DEF Onward, HoldsFp, Open, Busy, AudioAt, Sub
  <2>2. CASE x # w
    <3>1. imp'[x] = imp[x]
      BY <2>2, StepFrame
    <3>2. QED BY <1>2, <3>1 DEF HoldsFp, Open, Busy, AudioAt, Sub
  <2>3. QED BY <2>1, <2>2
<1>3. AudioAt(u) = AudioAt(v)
  BY <1>1, <1>2
<1>4. CASE HoldsFp(u) /\ HoldsFp(v)
  BY <1>1, <1>3, <1>4 DEF LocksHeld
<1>5. CASE LockFp(w) /\ u = w
  BY <1>1, <1>2, <1>3, <1>5 DEF LockFp
<1>6. CASE LockFp(w) /\ v = w
  BY <1>1, <1>2, <1>3, <1>6 DEF LockFp
<1>7. QED BY <1>1, <1>2, <1>4, <1>5, <1>6

\* A submission is imported by one importer at a time, and waits until then.
LEMMA StepOwners ==
  ASSUME TypeOK, NEW w \in Workers, \A v \in Workers : ImportSound(v) /\ WriteSound(v), StepOf(w)
  PROVE  TypeOK'
<1>0. Typed /\ WriteSound(w)
  BY DEF TypeOK
<1>1. Typed'
  BY <1>0, StepTyped
<1>2. (pending \cap handled = {})'
  <2>1. CASE UNCHANGED ingest
    BY <2>1 DEF TypeOK, ingest
  <2>2. CASE CommitIngest(w)
    BY <2>2 DEF TypeOK, CommitIngest
  <2>3. QED BY <1>0, <2>1, <2>2, StepTables
<1>3. ASSUME NEW u \in Workers, NEW v \in Workers, Open(u, "ingest")', Open(v, "ingest")',
             Sub(u)' = Sub(v)', u # v
      PROVE  FALSE
  <2>1. ASSUME NEW x \in Workers, x # w, Open(x, "ingest")'
        PROVE  Open(x, "ingest") /\ Sub(x)' = Sub(x)
    <3>1. imp'[x] = imp[x]
      BY <1>0, <2>1, StepFrame
    <3>2. QED BY <2>1, <3>1 DEF Open, Busy, Sub
  <2>2. CASE Pick(w)
    <3>1. \A x \in Workers : Open(x, "ingest") => Sub(x) # Sub(w)'
      BY <1>0, <2>2, PickedShape
    <3>2. CASE u = w
      BY <1>3, <2>1, <3>1, <3>2 DEF Sub, Open, Busy
    <3>3. CASE v = w
      BY <1>3, <2>1, <3>1, <3>3 DEF Sub, Open, Busy
    <3>4. CASE u # w /\ v # w
      BY <1>3, <2>1, <3>4 DEF TypeOK
    <3>5. QED BY <3>2, <3>3, <3>4
  <2>3. CASE Ends(w)
    <3>1. ~ Open(w, "ingest")'
      BY <1>0, <2>3, EndedShape
    <3>2. Open(u, "ingest") /\ Open(v, "ingest") /\ Sub(u) = Sub(v)
      BY <1>3, <2>1, <3>1
    <3>3. QED BY <1>3, <3>2 DEF TypeOK
  <2>4. CASE Onward(w)
    <3>1. Open(u, "ingest") /\ Open(v, "ingest") /\ Sub(u) = Sub(v)
      BY <1>3, <2>1, <2>4 DEF Onward
    <3>2. QED BY <1>3, <3>1 DEF TypeOK
  <2>5. QED BY <1>0, <2>2, <2>3, <2>4, StepShape
<1>4. QED BY <1>1, <1>2, <1>3 DEF TypeOK

\* What was a submission of the queue or a handled one still is, but for the one
\* that a commit takes from the queue.
LEMMA QueueKept ==
  ASSUME Typed, NEW w \in Workers, StepOf(w)
  PROVE  handled \subseteq handled' /\ (pending' = pending \/ CommitIngest(w))
<1>1. CASE UNCHANGED ingest
  BY <1>1 DEF ingest
<1>2. CASE CommitIngest(w)
  BY <1>2 DEF CommitIngest
<1>3. QED BY <1>1, <1>2, StepTables

\* The import of the one that makes a step stays sound.
LEMMA StepImportSound ==
  ASSUME Typed, NEW w \in Workers, ImportSound(w), WriteSound(w), StepOf(w)
  PROVE  ImportSound(w)'
<1> USE DEF ImportSound, Goto, Sub, Open, Busy, States, ingest, fingerprint, index
<1>0. imp[w] \in Import /\ imp \in [Workers -> Import]
  BY DEF Typed
<1>1. CASE Pick(w)
  BY <1>1, PickedShape DEF Pick, Databases
<1>2. CASE Ends(w)
  BY <1>2, EndedShape, NoneTyped DEF Ends
<1>3. CASE LockFp(w)
  BY <1>3, <1>0 DEF LockFp, Import
<1>4. CASE LockMbid(w)
  BY <1>4, <1>0 DEF LockMbid, Import
<1>5. CASE SkipUseless(w)
  BY <1>5, <1>0 DEF SkipUseless, Import, Databases
<1>6. CASE ReadMax(w)
  BY <1>6, <1>0 DEF ReadMax, Import
<1>7. CASE SearchIndex(w) \/ SearchTable(w) \/ ChooseTrack(w)
  <2>1. imp[w].pc \in {"index", "table", "choose"} /\ UNCHANGED <<pending, handled>>
    BY <1>7 DEF SearchIndex, SearchTable, ChooseTrack
  <2>2. /\ imp'[w].pc \in {"table", "choose", "insert", "count"} /\ imp'[w].sub = imp[w].sub
        /\ imp'[w].left = imp[w].left
    BY <1>7, SearchEffect, ChooseEffect
  <2>3. QED BY <2>1, <2>2
<1>8. CASE Insert(w)
  <2>1. /\ imp[w].pc = "insert" /\ imp'[w].sub = imp[w].sub /\ imp'[w].pc = "trigger"
        /\ imp'[w].left = imp[w].left /\ UNCHANGED <<pending, handled>>
    BY <1>8, <1>0 DEF Insert, Import
  <2>2. QED BY <2>1
<1>9. CASE Inserted(w)
  BY <1>9, <1>0 DEF Inserted, Import
<1>10. CASE Counted(w)
  BY <1>10, <1>0 DEF Counted, Import
<1>11. CASE Linked(w)
  BY <1>11, <1>0 DEF Linked, Import, Databases
<1>12. CASE CommitIngest(w) /\ ~ Ends(w)
  <2>1. /\ imp[w].pc = "commit" /\ imp[w].left # {"ingest"} /\ "ingest" \in imp[w].left
        /\ handled' = handled \cup {imp[w].sub}
        /\ imp' = [imp EXCEPT ![w] = [imp[w] EXCEPT !.left = imp[w].left \ {"ingest"}]]
    BY <1>12 DEF CommitIngest, CommitOf, Ends
  <2>2. /\ imp'[w].pc = "commit" /\ imp'[w].sub = imp[w].sub
        /\ imp'[w].left = imp[w].left \ {"ingest"}
    BY <2>1, <1>0 DEF Import
  <2>3. imp'[w].left # {}
    BY <2>1, <2>2
  <2>4. QED BY <2>1, <2>2, <2>3
<1>13. CASE (CommitFingerprint(w) \/ CommitNothing(w)) /\ ~ Ends(w)
  <2>1. CommitOf(w, "fingerprint") /\ UNCHANGED <<pending, handled>>
    BY <1>13 DEF CommitFingerprint, CommitNothing
  <2>2. /\ imp[w].pc = "commit" /\ imp[w].left # {"fingerprint"} /\ "fingerprint" \in imp[w].left
        /\ imp' = [imp EXCEPT ![w] = [imp[w] EXCEPT !.left = imp[w].left \ {"fingerprint"}]]
    BY <2>1, <1>13 DEF CommitOf, Ends
  <2>3. /\ imp'[w].pc = "commit" /\ imp'[w].sub = imp[w].sub
        /\ imp'[w].left = imp[w].left \ {"fingerprint"}
    BY <2>2, <1>0 DEF Import
  <2>4. imp'[w].left # {} /\ ("ingest" \in imp'[w].left <=> "ingest" \in imp[w].left)
    BY <2>2, <2>3
  <2>5. QED BY <2>1, <2>2, <2>3, <2>4
<1>14. CASE Fail(w) \/ TornCommit(w) \/ Related(w)
  BY <1>2, <1>14 DEF Fail, TornCommit, Related, Ends
<1> QED
  BY <1>1, <1>2, <1>3, <1>4, <1>5, <1>6, <1>7, <1>8, <1>9, <1>10, <1>11, <1>12, <1>13, <1>14
     DEF StepOf, ImportStep

\* So do the others: what is taken from the queue is not theirs.
LEMMA OthersImportSound ==
  ASSUME TypeOK, NEW w \in Workers, StepOf(w), NEW v \in Workers, v # w, ImportSound(v)
  PROVE  ImportSound(v)'
<1>1. imp'[v] = imp[v] /\ handled \subseteq handled'
  BY StepFrame, QueueKept DEF TypeOK
<1>2. Open(v, "ingest") /\ Sub(v) \in pending => Sub(v) \in pending'
  <2>1. CASE pending' = pending
    BY <2>1
  <2>2. CASE CommitIngest(w)
    <3>1. Open(w, "ingest") /\ pending' = pending \ {Sub(w)}
      BY <2>2 DEF CommitIngest, CommitOf, Open, Busy
    <3>2. QED BY <3>1 DEF TypeOK
  <2>3. QED BY <2>1, <2>2, QueueKept DEF TypeOK
<1>3. QED BY <1>1, <1>2 DEF ImportSound, Open, Busy, Sub
-----------------------------------------------------------------------------
(* What is written *)

\* An insert takes the next id for the fingerprint, and for a track if it has none.
LEMMA InsertEffect ==
  ASSUME Typed, NEW w \in Workers, Insert(w)
  PROVE  /\ imp[w].pc = "insert" /\ imp'[w].pc = "trigger" /\ imp'[w].sub = imp[w].sub
         /\ imp'[w].new /\ imp'[w].fp = nextFp /\ imp'[w].track \in FpIds
         /\ nextFp' = nextFp + 1 /\ nextFp \in FpIds
<1>0. imp[w] \in Import /\ imp \in [Workers -> Import] /\ nextFp \in 1 .. MaxFp + 1 /\ MaxFp \in Nat
  BY ImportAssumption DEF Typed
<1>1. imp[w].pc = "insert" /\ nextFp <= MaxFp /\ nextFp' = nextFp + 1
  BY DEF Insert
<1>2. PICK t : t = IF imp[w].track = 0 THEN nextFp ELSE imp[w].track
  OBVIOUS
<1>3. imp' = [imp EXCEPT ![w] = [imp[w] EXCEPT !.pc = "trigger", !.fp = nextFp, !.new = TRUE,
                                                 !.track = t]]
  BY <1>2 DEF Insert
<1>4. nextFp \in FpIds
  BY <1>0, <1>1 DEF FpIds
<1>5. t \in FpIds
  <2>1. imp[w].track \in 0 .. MaxFp
    BY <1>0 DEF Import
  <2>2. QED BY <1>0, <1>2, <1>4, <2>1 DEF FpIds
<1>6. /\ imp'[w].pc = "trigger" /\ imp'[w].sub = imp[w].sub /\ imp'[w].new
      /\ imp'[w].fp = nextFp /\ imp'[w].track = t
  BY <1>0, <1>3 DEF Import
<1>7. QED BY <1>1, <1>4, <1>5, <1>6

\* A commit ends the import or leaves the other database to do; its transaction
\* is over.
LEMMA CommitEffect ==
  ASSUME Typed, NEW w \in Workers, NEW db, CommitOf(w, db)
  PROVE  /\ imp[w].pc = "commit" /\ db \in imp[w].left
         /\ imp'[w].left = imp[w].left \ {db}
         /\ imp[w].left = {db} => Ends(w)
         /\ imp[w].left # {db} =>
              /\ imp'[w].pc = "commit" /\ imp'[w].sub = imp[w].sub /\ imp'[w].fp = imp[w].fp
              /\ imp'[w].track = imp[w].track /\ imp'[w].new = imp[w].new
<1>0. imp[w] \in Import /\ imp \in [Workers -> Import]
  BY DEF Typed
<1>1. imp[w].pc = "commit" /\ db \in imp[w].left
  BY DEF CommitOf
<1>2. CASE imp[w].left = {db}
  <2>1. Ends(w)
    BY <1>2 DEF CommitOf, Ends
  <2>2. imp'[w].left = {}
    BY <2>1, EndedShape
  <2>3. QED BY <1>1, <1>2, <2>1, <2>2
<1>3. CASE imp[w].left # {db}
  BY <1>0, <1>1, <1>3 DEF CommitOf, Import
<1>4. QED BY <1>2, <1>3

\* An import that writes to a fingerprint counts on one whose id was given out.
LEMMA WritesIn ==
  ASSUME Typed, NEW w \in Workers, ImportSound(w), WriteSound(w), Writes(w)
  PROVE  /\ imp[w].fp \in FpIds /\ imp[w].track \in FpIds /\ imp[w].fp < nextFp
         /\ Sub(w) \notin Useless
<1>1. imp[w].pc \in Writing /\ (imp[w].pc = "commit" => Sub(w) \notin Useless)
  BY DEF Writes
<1>2. Sub(w) \notin Useless
  BY <1>1 DEF Writing, States, ImportSound
<1>3. QED BY <1>1, <1>2, WrittenIn

\* The fingerprint half of a commit: the row or the count of w, and no write left.
LEMMA FingerprintCommitted ==
  ASSUME Typed, NEW w \in Workers, CommitFingerprint(w)
  PROVE  Writes(w) /\ CommitOf(w, "fingerprint") /\ Sub(w) \notin Useless /\ ~ Writes(w)'
<1>1. CommitOf(w, "fingerprint") /\ Sub(w) \notin Useless
  BY DEF CommitFingerprint
<1>2. /\ imp[w].pc = "commit" /\ "fingerprint" \in imp[w].left
      /\ imp'[w].left = imp[w].left \ {"fingerprint"}
      /\ Ends(w) \/ imp'[w].pc = "commit"
  BY <1>1, CommitEffect
<1>3. Writes(w)
  BY <1>1, <1>2 DEF Writes, Writing, Open, Busy
<1>4. ~ Writes(w)'
  BY <1>2, EndedShape DEF Writes, Open
<1>5. QED BY <1>1, <1>3, <1>4
\* The fields of an import that writes: an id that was given out, a track, and a
\* new row from the insert to the commit only.
FieldsSound(w) ==
  /\ imp[w].pc \in Writing /\ Sub(w) \notin Useless =>
       imp[w].fp \in 1 .. nextFp - 1 /\ imp[w].track \in FpIds
  /\ imp[w].new => imp[w].pc \in {"trigger", "written", "commit"}
  /\ imp[w].pc = "trigger" => imp[w].new

\* The row it writes to.
RowSound(w) ==
  Writes(w) =>
    IF imp[w].new THEN /\ \A f \in fps : f.id # imp[w].fp
                       /\ \A v \in Workers \ {w} : Writes(v) => imp[v].fp # imp[w].fp
    ELSE \E f \in fps : f.id = imp[w].fp /\ f.track = imp[w].track

\* The two parts of WriteSound.
LEMMA WriteSoundParts == \A w : WriteSound(w) <=> FieldsSound(w) /\ RowSound(w)
BY DEF WriteSound, FieldsSound, RowSound

\* The id sequence only goes up.
LEMMA SequenceUp ==
  ASSUME Typed, NEW w \in Workers, StepOf(w)
  PROVE  nextFp \in Nat /\ nextFp' \in Nat /\ nextFp <= nextFp'
<1>1. nextFp \in Nat
  BY ImportAssumption DEF Typed
<1>2. CASE Insert(w)
  BY <1>1, <1>2, InsertEffect
<1>3. QED BY <1>1, <1>2, StepTables

\* The id and the track of a row.
LEMMA RowIds ==
  ASSUME Typed, RowsSound, NEW f \in fps
  PROVE  f.id \in FpIds /\ f.track \in FpIds /\ f.audio \in Audio /\ f.id < nextFp
BY DEF Typed, RowsSound

\* A step keeps the fields of its import sound.
LEMMA StepFieldsSound ==
  ASSUME Typed, NEW w \in Workers, ImportSound(w), FieldsSound(w), RowsSound, StepOf(w)
  PROVE  FieldsSound(w)'
<1> USE DEF FieldsSound, Goto, Sub, Writing, ingest, fingerprint, index
<1>0. imp[w] \in Import /\ imp \in [Workers -> Import]
  BY DEF Typed
<1>1. CASE Pick(w)
  BY <1>1, PickedShape
<1>2. CASE Ends(w)
  <2>1. imp'[w].pc = "idle" /\ ~ imp'[w].new
    BY <1>2, <1>0, NoneTyped DEF Ends
  <2>2. QED BY <2>1
<1>3. CASE LockFp(w)
  BY <1>3, <1>0 DEF LockFp, Import
<1>4. CASE LockMbid(w)
  BY <1>4, <1>0 DEF LockMbid, Import
<1>5. CASE SkipUseless(w)
  BY <1>5, <1>0 DEF SkipUseless, Import
<1>6. CASE ReadMax(w)
  BY <1>6, <1>0 DEF ReadMax, Import
<1>7. CASE ChooseTrack(w)
  <2>1. ~ imp'[w].new /\ nextFp' = nextFp
    BY <1>7, ChooseEffect DEF ChooseTrack
  <2>2. CASE imp'[w].pc = "insert"
    BY <2>1, <2>2
  <2>3. CASE imp'[w].pc # "insert"
    <3>1. imp'[w].pc = "count" /\ \E f \in fps : f.id = imp'[w].fp /\ f.track = imp'[w].track
      BY <1>7, <2>3, ChooseEffect
    <3>2. imp'[w].fp \in 1 .. nextFp - 1 /\ imp'[w].track \in FpIds
      <4>1. PICK f \in fps : f.id = imp'[w].fp /\ f.track = imp'[w].track
        BY <3>1
      <4>2. f.id \in FpIds /\ f.track \in FpIds /\ f.id < nextFp
        BY RowIds
      <4>3. nextFp \in Nat /\ f.id \in Nat \ {0}
        <5>1. MaxFp \in Nat
          BY ImportAssumption
        <5>2. f.id \in 1 .. MaxFp
          BY <4>2 DEF FpIds
        <5>3. nextFp \in 1 .. MaxFp + 1
          BY DEF Typed
        <5>4. QED BY <5>1, <5>2, <5>3
      <4>4. f.id \in 1 .. nextFp - 1
        BY <4>2, <4>3
      <4>5. QED BY <4>1, <4>2, <4>4
    <3>3. QED BY <2>1, <3>1, <3>2
  <2>4. QED BY <2>2, <2>3
<1>8. CASE Insert(w)
  BY <1>8, InsertEffect, ImportAssumption DEF FpIds
<1>9. CASE Inserted(w)
  BY <1>9, <1>0 DEF Inserted, Import
<1>10. CASE Counted(w)
  BY <1>10, <1>0 DEF Counted, Import
<1>11. CASE Linked(w)
  BY <1>11, <1>0 DEF Linked, Import
<1>12. ASSUME NEW db, CommitOf(w, db), nextFp' = nextFp, ~ Ends(w) PROVE FieldsSound(w)'
  <2>1. imp[w].left # {db} /\ imp[w].pc = "commit"
    BY <1>12, CommitEffect
  <2>2. /\ imp'[w].pc = "commit" /\ imp'[w].sub = imp[w].sub /\ imp'[w].fp = imp[w].fp
        /\ imp'[w].track = imp[w].track /\ imp'[w].new = imp[w].new
    BY <1>12, <2>1, CommitEffect
  <2>3. QED BY <1>12, <2>1, <2>2
<1>13. CASE CommitIngest(w) \/ CommitFingerprint(w) \/ CommitNothing(w)
  BY <1>2, <1>12, <1>13 DEF CommitIngest, CommitFingerprint, CommitNothing
<1>14. CASE Fail(w) \/ TornCommit(w) \/ Related(w)
  BY <1>2, <1>14 DEF Fail, TornCommit, Related, Ends
<1>15. CASE SearchIndex(w) \/ SearchTable(w)
  <2>1. ~ imp'[w].new /\ imp'[w].pc \in {"table", "choose"}
    BY <1>15, SearchEffect
  <2>2. QED BY <2>1
<1> QED
  BY <1>1, <1>3, <1>4, <1>5, <1>6, <1>7, <1>8, <1>9, <1>10, <1>11, <1>13, <1>14, <1>15
     DEF StepOf, ImportStep

\* Those of the others stay sound: ids are given out for good.
LEMMA OthersFieldsSound ==
  ASSUME Typed, NEW w \in Workers, StepOf(w), NEW v \in Workers, v # w, FieldsSound(v)
  PROVE  FieldsSound(v)'
<1>1. imp'[v] = imp[v]
  BY StepFrame
<1>2. nextFp \in Nat /\ nextFp' \in Nat /\ nextFp <= nextFp'
  BY SequenceUp
<1>3. imp[v].fp \in 1 .. nextFp - 1 => imp[v].fp \in 1 .. nextFp' - 1
  BY <1>2
<1>4. QED BY <1>1, <1>3 DEF FieldsSound, Sub

\* What w writes to after its step, if it writes at all: the row that it had found,
\* one that its search has found, or one under the next id.
LEMMA NextWrite ==
  ASSUME Typed, RowsSound, NEW w \in Workers, ImportSound(w), WriteSound(w), StepOf(w), Writes(w)'
  PROVE  \/ /\ Writes(w) /\ imp'[w].fp = imp[w].fp /\ imp'[w].track = imp[w].track
            /\ imp'[w].new = imp[w].new /\ fps' = fps
         \/ /\ ~ imp'[w].new /\ fps' = fps
            /\ \E f \in fps : f.id = imp'[w].fp /\ f.track = imp'[w].track
         \/ imp'[w].new /\ imp'[w].fp = nextFp /\ fps' = fps
<1>1. Onward(w)
  BY StepShape, EndedShape, PickedShape
<1>2. fps' = fps
  BY StepTables, FingerprintCommitted DEF fingerprint
<1>3. CASE ChooseTrack(w)
  <2>1. ~ imp[w].new
    BY <1>3 DEF WriteSound, ChooseTrack
  <2>2. imp'[w].pc # "insert"
    BY DEF Writes, Writing
  <2>3. QED BY <1>2, <1>3, <2>1, <2>2, ChooseEffect
<1>4. CASE Insert(w)
  BY <1>2, <1>4, InsertEffect
<1>5. QED BY <1>1, <1>2, <1>3, <1>4 DEF Onward
\* What the invariant says of every import.
ImportsSound == \A v \in Workers : ImportSound(v) /\ WriteSound(v)

\* An import that is not of w writes what it wrote.
LEMMA OtherWrite ==
  ASSUME Typed, NEW w \in Workers, StepOf(w), NEW v \in Workers, v # w
  PROVE  /\ Writes(v)' <=> Writes(v)
         /\ imp'[v].fp = imp[v].fp /\ imp'[v].track = imp[v].track /\ imp'[v].new = imp[v].new
<1>1. imp'[v] = imp[v]
  BY StepFrame
<1>2. QED BY <1>1 DEF Writes, Open, Busy, Sub

\* Two imports that insert do so under ids of their own, a count finds its row.
LEMMA StepRowSound ==
  ASSUME Typed, RowsSound, ImportsSound, NEW w \in Workers, StepOf(w), NEW x \in Workers
  PROVE  RowSound(x)'
<1>1. SUFFICES ASSUME Writes(x)' PROVE RowSound(x)'
  BY DEF RowSound
<1>2. \A v \in Workers : ImportSound(v) /\ WriteSound(v) /\ RowSound(v)
  BY WriteSoundParts DEF ImportsSound
<1>3. CASE CommitFingerprint(w)
  <2>1. Writes(w) /\ ~ Writes(w)'
    BY <1>3, FingerprintCommitted
  <2>2. x # w
    BY <1>1, <2>1 DEF Writes, Open, Busy, Sub
  <2>3. /\ Writes(x) /\ imp'[x].fp = imp[x].fp /\ imp'[x].track = imp[x].track
        /\ imp'[x].new = imp[x].new
    BY <1>1, <2>2, OtherWrite
  <2>4. /\ fps \subseteq fps'
        /\ \A f \in fps' : f \in fps \/ (imp[w].new /\ f.id = imp[w].fp)
    BY <1>3 DEF CommitFingerprint
  <2>5. CASE ~ imp[x].new
    <3>1. \E f \in fps : f.id = imp[x].fp /\ f.track = imp[x].track
      BY <1>2, <2>3, <2>5 DEF RowSound
    <3>2. QED BY <2>3, <2>4, <2>5, <3>1 DEF RowSound
  <2>6. CASE imp[x].new
    <3>1. /\ \A f \in fps : f.id # imp[x].fp
          /\ \A v \in Workers \ {x} : Writes(v) => imp[v].fp # imp[x].fp
      BY <1>2, <2>3, <2>6 DEF RowSound
    <3>2. \A f \in fps' : f.id # imp[x].fp
      BY <2>1, <2>2, <2>4, <3>1
    <3>3. ASSUME NEW v \in Workers \ {x}, Writes(v)' PROVE imp'[v].fp # imp[x].fp
      <4>1. v # w
        BY <2>1, <3>3 DEF Writes, Open, Busy, Sub
      <4>2. Writes(v) /\ imp'[v].fp = imp[v].fp
        BY <3>3, <4>1, OtherWrite
      <4>3. QED BY <3>1, <4>2
    <3>4. QED BY <2>3, <2>6, <3>2, <3>3 DEF RowSound
  <2>7. QED BY <2>5, <2>6
<1>4. CASE ~ CommitFingerprint(w)
  <2>1. fps' = fps
    BY <1>4, StepTables DEF fingerprint
  <2>2. \A v \in Workers : Writes(v) => imp[v].fp < nextFp /\ imp[v].fp \in FpIds
    BY <1>2, WritesIn
  <2>3. \A f \in fps : f.id < nextFp /\ f.id \in FpIds
    BY RowIds
  <2>4. nextFp \in Nat /\ FpIds \subseteq Nat
    BY ImportAssumption DEF FpIds, Typed
  <2>5. CASE x = w
    <3>1. Writes(w)'
      BY <1>1, <2>5 DEF Writes, Open, Busy, Sub
    <3>2. CASE /\ Writes(w) /\ imp'[w].fp = imp[w].fp /\ imp'[w].track = imp[w].track
               /\ imp'[w].new = imp[w].new
      <4>1. \A v \in Workers \ {w} : Writes(v)' => Writes(v) /\ imp'[v].fp = imp[v].fp
        BY OtherWrite
      <4>2. RowSound(w)
        BY <1>2
      <4>3. CASE imp[w].new
        <5>1. /\ \A f \in fps' : f.id # imp'[w].fp
              /\ \A v \in Workers \ {w} : Writes(v)' => imp'[v].fp # imp'[w].fp
          BY <2>1, <3>2, <4>1, <4>2, <4>3 DEF RowSound
        <5>2. QED BY <2>5, <3>2, <4>3, <5>1 DEF RowSound
      <4>4. CASE ~ imp[w].new
        <5>1. \E f \in fps' : f.id = imp'[w].fp /\ f.track = imp'[w].track
          BY <2>1, <3>2, <4>2, <4>4 DEF RowSound
        <5>2. QED BY <2>5, <3>2, <4>4, <5>1 DEF RowSound
      <4>5. QED BY <4>3, <4>4
    <3>3. CASE ~ imp'[w].new /\ \E f \in fps : f.id = imp'[w].fp /\ f.track = imp'[w].track
      BY <2>1, <2>5, <3>3 DEF RowSound
    <3>4. CASE imp'[w].new /\ imp'[w].fp = nextFp
      <4>1. \A f \in fps' : f.id # imp'[w].fp
        BY <2>1, <2>3, <2>4, <3>4
      <4>2. ASSUME NEW v \in Workers \ {w}, Writes(v)' PROVE imp'[v].fp # imp'[w].fp
        <5>1. Writes(v) /\ imp'[v].fp = imp[v].fp
          BY <4>2, OtherWrite
        <5>2. PICK m, n : m = imp[v].fp /\ n = nextFp
          OBVIOUS
        <5>3. m < n /\ m \in Nat /\ n \in Nat
          BY <2>2, <2>4, <5>1, <5>2
        <5>4. m # n
          BY <5>3
        <5>5. QED BY <3>4, <5>1, <5>2, <5>4
      <4>3. QED BY <2>5, <3>4, <4>1, <4>2 DEF RowSound
    <3>5. QED BY <1>2, <3>1, <3>2, <3>3, <3>4, NextWrite
  <2>6. CASE x # w
    <3>1. /\ Writes(x) /\ imp'[x].fp = imp[x].fp /\ imp'[x].track = imp[x].track
          /\ imp'[x].new = imp[x].new
      BY <1>1, <2>6, OtherWrite
    <3>2. CASE ~ imp[x].new
      BY <1>2, <2>1, <3>1, <3>2 DEF RowSound
    <3>3. CASE imp[x].new
      <4>1. /\ \A f \in fps : f.id # imp[x].fp
            /\ \A v \in Workers \ {x} : Writes(v) => imp[v].fp # imp[x].fp
        BY <1>2, <3>1, <3>3 DEF RowSound
      <4>2. ASSUME NEW v \in Workers \ {x}, Writes(v)' PROVE imp'[v].fp # imp[x].fp
        <5>1. CASE v # w
          <6>1. Writes(v) /\ imp'[v].fp = imp[v].fp
            BY <4>2, <5>1, OtherWrite
          <6>2. QED BY <4>1, <6>1
        <5>2. CASE v = w
          <6>1. Writes(w)'
            BY <4>2, <5>2 DEF Writes, Open, Busy, Sub
          <6>2. CASE Writes(w) /\ imp'[w].fp = imp[w].fp
            BY <2>6, <4>1, <5>2, <6>2
          <6>3. CASE \E f \in fps : f.id = imp'[w].fp
            BY <4>1, <5>2, <6>3
          <6>4. CASE imp'[w].fp = nextFp
            <7>1. PICK m, n : m = imp[x].fp /\ n = nextFp
              OBVIOUS
            <7>2. m < n /\ m \in Nat /\ n \in Nat
              BY <2>2, <2>4, <3>1, <7>1
            <7>3. m # n
              BY <7>2
            <7>4. QED BY <5>2, <6>4, <7>1, <7>3
          <6>5. QED BY <1>2, <6>1, <6>2, <6>3, <6>4, NextWrite
        <5>3. QED BY <5>1, <5>2
      <4>3. QED BY <2>1, <3>1, <3>3, <4>1, <4>2 DEF RowSound
    <3>4. QED BY <3>2, <3>3
  <2>7. QED BY <2>5, <2>6
<1>5. QED BY <1>3, <1>4
\* What the commit of the fingerprint half changes: a row if the import inserts,
\* and the counts of its fingerprint.
LEMMA CommittedRow ==
  ASSUME Typed, ImportsSound, NEW w \in Workers, CommitFingerprint(w)
  PROVE  /\ imp[w].fp \in FpIds /\ imp[w].track \in FpIds /\ imp[w].fp < nextFp
         /\ nextFp' = nextFp
         /\ count' = [count EXCEPT ![imp[w].fp] = @ + 1]
         /\ imp[w].new =>
              /\ fps' = fps \cup {[id |-> imp[w].fp, audio |-> AudioAt(w), track |-> imp[w].track]}
              /\ \A f \in fps : f.id # imp[w].fp
         /\ ~ imp[w].new =>
              fps' = fps /\ \E f \in fps : f.id = imp[w].fp /\ f.track = imp[w].track
<1>1. ImportSound(w) /\ WriteSound(w) /\ RowSound(w) /\ Writes(w)
  BY WriteSoundParts, FingerprintCommitted DEF ImportsSound
<1>2. imp[w].fp \in FpIds /\ imp[w].track \in FpIds /\ imp[w].fp < nextFp
  BY <1>1, WritesIn
<1>3. QED BY <1>1, <1>2 DEF CommitFingerprint, RowSound

\* The rows keep their ids apart, and counts their rows.
LEMMA StepRowsSound ==
  ASSUME Typed, RowsSound, ImportsSound, NEW w \in Workers, StepOf(w)
  PROVE  RowsSound'
<1>1. CASE UNCHANGED fingerprint
  <2>1. fps' = fps /\ count' = count
    BY <1>1 DEF fingerprint
  <2>2. \A f \in fps : f.id < nextFp'
    <3>1. ASSUME NEW f \in fps PROVE f.id < nextFp'
      <4>1. f.id < nextFp /\ f.id \in Nat
        BY ImportAssumption, RowIds DEF FpIds
      <4>2. QED BY <4>1, SequenceUp
    <3>2. QED BY <3>1
  <2>3. QED BY <2>1, <2>2 DEF RowsSound
<1>2. CASE CommitFingerprint(w)
  <2>1. count' = [count EXCEPT ![imp[w].fp] = @ + 1] /\ nextFp' = nextFp /\ imp[w].fp < nextFp
    BY <1>2, CommittedRow
  <2>2. \A i \in FpIds : i # imp[w].fp => count'[i] = count[i]
    BY <2>1 DEF Typed
  <2>3. CASE imp[w].new
    <3>1. PICK r : r = [id |-> imp[w].fp, audio |-> AudioAt(w), track |-> imp[w].track]
      OBVIOUS
    <3>2. fps' = fps \cup {r} /\ r.id = imp[w].fp /\ \A f \in fps : f.id # r.id
      BY <1>2, <2>3, <3>1, CommittedRow
    <3>3. \A f, g \in fps' : f.id = g.id => f = g
      BY <3>2 DEF RowsSound
    <3>4. \A f \in fps' : f.id < nextFp'
      BY <2>1, <3>2 DEF RowsSound
    <3>5. \A i \in FpIds : count'[i] # 0 => \E f \in fps' : f.id = i
      BY <2>2, <3>2 DEF RowsSound
    <3>6. QED BY <3>3, <3>4, <3>5 DEF RowsSound
  <2>4. CASE ~ imp[w].new
    <3>1. fps' = fps /\ \E f \in fps : f.id = imp[w].fp
      BY <1>2, <2>4, CommittedRow
    <3>2. QED BY <2>1, <2>2, <3>1 DEF RowsSound
  <2>5. QED BY <2>3, <2>4
<1>3. QED BY <1>1, <1>2, StepTables

\* The ingest half of a commit: the submission leaves the queue, with its row.
LEMMA IngestCommitted ==
  ASSUME TypeOK, ImportsSound, NEW w \in Workers, CommitIngest(w)
  PROVE  /\ CommitOf(w, "ingest") /\ Open(w, "ingest")
         /\ Sub(w) \in pending /\ Sub(w) \notin handled
         /\ handled' = handled \cup {Sub(w)}
<1>1. CommitOf(w, "ingest") /\ handled' = handled \cup {Sub(w)}
  BY DEF CommitIngest
<1>2. Open(w, "ingest")
  BY <1>1 DEF CommitOf, Open, Busy
<1>3. Sub(w) \in pending
  BY <1>2 DEF ImportsSound, ImportSound, Open
<1>4. QED BY <1>1, <1>2, <1>3 DEF TypeOK

\* A submission gets its row of fingerprint_source when it is handled, and one.
LEMMA StepSourcesSound ==
  ASSUME TypeOK, SourcesSound, ImportsSound, NEW w \in Workers, StepOf(w)
  PROVE  SourcesSound'
<1>1. CASE UNCHANGED ingest
  BY <1>1 DEF ingest, SourcesSound
<1>2. CASE CommitIngest(w)
  <2>1. Sub(w) \notin handled /\ handled' = handled \cup {Sub(w)}
    BY <1>2, IngestCommitted
  <2>2. CASE Sub(w) \in Useless
    BY <1>2, <2>1, <2>2 DEF CommitIngest, SourcesSound
  <2>3. CASE Sub(w) \notin Useless
    <3>1. PICK q : q = [sub |-> Sub(w), fp |-> imp[w].fp]
      OBVIOUS
    <3>2. sources' = sources \cup {q} /\ q.sub = Sub(w)
      BY <1>2, <2>3, <3>1 DEF CommitIngest
    <3>3. QED BY <2>1, <3>2 DEF SourcesSound
  <2>4. QED BY <2>2, <2>3
<1>3. QED BY <1>1, <1>2, StepTables DEF TypeOK

\* The histories stay typed.
LEMMA StepHistory ==
  ASSUME Typed, HistorySound, ImportsSound, NEW w \in Workers, StepOf(w)
  PROVE  HistorySound'
<1>1. slipped' \subseteq Audio
  <2>1. CASE SearchIndex(w) \/ SearchTable(w) \/ ChooseTrack(w)
    BY <2>1, SubIn DEF SearchIndex, SearchTable, ChooseTrack, Slip, HistorySound
  <2>2. QED BY <2>1, StepTables DEF HistorySound
<1>2. drift' \in [FpIds -> Int]
  <2>1. CASE TornCommit(w)
    <3>1. CASE Sub(w) \in Useless
      BY <2>1, <3>1 DEF TornCommit, HistorySound
    <3>2. CASE Sub(w) \notin Useless
      <4>1. PICK i : i = imp[w].fp
        OBVIOUS
      <4>2. i \in FpIds
        BY <2>1, <3>2, <4>1, WrittenIn DEF TornCommit, Writing, ImportsSound
      <4>3. drift \in [FpIds -> Int] /\ drift[i] \in Int
        BY <4>2 DEF HistorySound
      <4>4. drift' = [drift EXCEPT ![i] = drift[i] + 1] \/ drift' = [drift EXCEPT ![i] = drift[i] - 1]
        BY <2>1, <3>2, <4>1 DEF TornCommit
      <4>5. QED BY <4>2, <4>3, <4>4
    <3>3. QED BY <3>1, <3>2
  <2>2. QED BY <2>1, StepTables DEF HistorySound
<1>3. faults' \in Nat
  <2>1. CASE Fail(w) \/ TornCommit(w)
    BY <2>1 DEF Fail, TornCommit, HistorySound
  <2>2. CASE ~ (Fail(w) \/ TornCommit(w))
    <3>1. faults' = faults
      BY <2>2 DEF StepOf, ImportStep, Pick, LockFp, LockMbid, Related, SkipUseless, ReadMax,
         SearchIndex, SearchTable, ChooseTrack, Insert, Inserted, Counted, Linked, CommitIngest,
         CommitFingerprint, CommitNothing
    <3>2. QED BY <3>1 DEF HistorySound
  <2>3. QED BY <2>1, <2>2
<1>4. QED BY <1>1, <1>2, <1>3 DEF HistorySound

-----------------------------------------------------------------------------
(* Twins *)

\* Where an import comes from when it searches or inserts, and where a choice goes.
LEMMA SearchOrder ==
  ASSUME Typed, NEW w \in Workers, WriteSound(w), StepOf(w)
  PROVE  /\ imp'[w].pc = "index" => ReadMax(w)
         /\ imp'[w].pc = "table" => SearchIndex(w)
         /\ imp'[w].pc = "choose" => SearchTable(w)
         /\ imp[w].pc = "choose" => ChooseTrack(w) \/ Ends(w)
<1> USE DEF Goto
<1>0. imp[w] \in Import /\ imp \in [Workers -> Import]
  BY DEF Typed
<1>1. CASE Pick(w)
  <2>1. imp[w].pc = "idle"
    BY <1>1 DEF Pick
  <2>2. QED BY <1>1, <2>1, PickedShape
<1>2. CASE Ends(w)
  <2>1. imp'[w].pc = "idle"
    BY <1>0, <1>2, NoneTyped DEF Ends
  <2>2. QED BY <1>2, <2>1
<1>3. CASE LockFp(w) \/ LockMbid(w) \/ SkipUseless(w)
  BY <1>0, <1>3 DEF LockFp, LockMbid, SkipUseless, Import
<1>4. CASE ReadMax(w)
  BY <1>0, <1>4 DEF ReadMax, Import
<1>5. CASE SearchIndex(w) \/ SearchTable(w)
  BY <1>5, SearchEffect
<1>6. CASE ChooseTrack(w)
  BY <1>6, ChooseEffect
<1>7. CASE Insert(w)
  BY <1>7, InsertEffect
<1>8. CASE Inserted(w) \/ Counted(w) \/ Linked(w)
  <2>1. imp[w].pc # "choose" /\ imp'[w].pc \in {"written", "commit"}
    BY <1>0, <1>8 DEF Inserted, Counted, Linked, Import
  <2>2. QED BY <2>1
<1>9. ASSUME NEW db, CommitOf(w, db), ~ Ends(w) PROVE imp[w].pc = "commit" /\ imp'[w].pc = "commit"
  BY <1>9, CommitEffect
<1>10. CASE CommitIngest(w) \/ CommitFingerprint(w) \/ CommitNothing(w)
  BY <1>2, <1>9, <1>10 DEF CommitIngest, CommitFingerprint, CommitNothing
<1>11. CASE Fail(w) \/ TornCommit(w) \/ Related(w)
  BY <1>2, <1>11 DEF Fail, TornCommit, Related, Ends
<1> QED
  BY <1>1, <1>3, <1>4, <1>5, <1>6, <1>7, <1>8, <1>10, <1>11 DEF StepOf, ImportStep

\* What is indexed stays committed.
LEMMA StepIndexSound ==
  ASSUME Typed, IndexSound, NEW w \in Workers, StepOf(w)
  PROVE  IndexSound'
<1>1. indexed' = indexed
  BY StepFrame
<1>2. fps \subseteq fps'
  <2>1. CASE UNCHANGED fingerprint
    BY <2>1 DEF fingerprint
  <2>2. CASE CommitFingerprint(w)
    BY <2>2 DEF CommitFingerprint
  <2>3. QED BY <2>1, <2>2, StepTables
<1>3. QED BY <1>1, <1>2 DEF IndexSound

\* A row that a step adds is not in the index yet.
LEMMA NewRow ==
  ASSUME Typed, IndexSound, ImportsSound, NEW w \in Workers, StepOf(w), NEW f \in fps', f \notin fps
  PROVE  /\ CommitFingerprint(w) /\ imp[w].new /\ f.audio = AudioAt(w) /\ Inserting(w)
         /\ f.id \notin indexed
<1>1. CommitFingerprint(w)
  BY StepTables DEF fingerprint
<1>2. imp[w].new
  BY <1>1, CommittedRow
<1>3. PICK r : r = [id |-> imp[w].fp, audio |-> AudioAt(w), track |-> imp[w].track]
  OBVIOUS
<1>4. fps' = fps \cup {r} /\ r.id = imp[w].fp /\ r.audio = AudioAt(w) /\ \A g \in fps : g.id # r.id
  BY <1>1, <1>2, <1>3, CommittedRow
<1>5. f = r
  BY <1>4
<1>6. f.id \notin indexed
  BY <1>4, <1>5 DEF IndexSound
<1>7. Inserting(w)
  BY <1>1, <1>2, FingerprintCommitted DEF CommitOf, Inserting, Writes
<1>8. QED BY <1>1, <1>2, <1>4, <1>5, <1>6, <1>7

\* The candidates stay those of the index, or what they lack has slipped past.
LEMMA StepCandidatesSound ==
  ASSUME Typed, IndexSound, ImportsSound, \A v \in Workers : CandidatesSound(v),
         NEW w \in Workers, StepOf(w), NEW x \in Workers
  PROVE  CandidatesSound(x)'
<1>1. slipped \subseteq slipped' /\ indexed' = indexed /\ maxDoc' = maxDoc
  BY StepTables, StepFrame
<1>2. maxDoc \in Nat
  BY ImportAssumption DEF Typed
<1>3. ASSUME imp'[x] = imp[x] PROVE CandidatesSound(x)'
  <2>1. CandidatesSound(x) /\ AudioAt(x)' = AudioAt(x)
    BY <1>3 DEF AudioAt, Sub
  <2>2. \A f \in fps' : f.id \in indexed => f \in fps
    BY NewRow
  <2>3. QED BY <1>1, <1>3, <2>1, <2>2 DEF CandidatesSound
<1>4. CASE x # w
  BY <1>3, <1>4, StepFrame
<1>5. CASE x = w
  <2>0. WriteSound(w) /\ imp[w] \in Import /\ imp \in [Workers -> Import]
    BY DEF ImportsSound, Typed
  <2>1. CASE imp'[w].pc = "index"
    <3>1. ReadMax(w)
      BY <2>0, <2>1, SearchOrder
    <3>2. imp'[w].max = maxDoc
      BY <2>0, <3>1 DEF ReadMax, Import
    <3>3. QED BY <1>1, <1>2, <1>5, <2>1, <3>2 DEF CandidatesSound
  <2>2. CASE imp'[w].pc = "table"
    <3>1. SearchIndex(w)
      BY <2>0, <2>2, SearchOrder
    <3>2. /\ imp[w].pc = "index" /\ imp'[w].max = imp[w].max /\ imp'[w].sub = imp[w].sub
          /\ imp'[w].seen = {f.id : f \in FromIndex(w)}
      BY <3>1, SearchEffect
    <3>3. fps' = fps
      BY <3>1 DEF SearchIndex, fingerprint
    <3>4. imp[w].max <= maxDoc
      BY <3>2 DEF CandidatesSound
    <3>5. ASSUME AudioAt(w) \notin slipped', NEW f \in fps, f.audio = AudioAt(w), f.id \in indexed
          PROVE  f.id \in imp'[w].seen
      <4>1. ~ CutOff(w)
        BY <3>1, <3>5, SubIn DEF SearchIndex, Slip
      <4>2. f \in FromIndex(w)
        BY <3>5, <4>1 DEF CutOff
      <4>3. QED BY <3>2, <4>2
    <3>6. AudioAt(w)' = AudioAt(w)
      BY <3>2 DEF AudioAt, Sub
    <3>7. QED BY <1>1, <1>5, <2>2, <3>2, <3>3, <3>4, <3>5, <3>6 DEF CandidatesSound
  <2>3. CASE imp'[w].pc \notin {"index", "table"}
    BY <1>5, <2>3 DEF CandidatesSound
  <2>4. QED BY <2>1, <2>2, <2>3
<1>6. QED BY <1>4, <1>5

\* A table search that slips past nothing finds every fingerprint of the audio.
LEMMA NothingMissed ==
  ASSUME Typed, NEW w \in Workers, ImportSound(w), CandidatesSound(w), SearchTable(w),
         AudioAt(w) \notin slipped'
  PROVE  /\ \A f \in fps : f.audio = AudioAt(w) => f.id \in imp'[w].seen
         /\ ~ HalfCommitted(w)
<1>1. /\ ~ HalfCommitted(w) /\ ~ NeverIndexed(w) /\ AudioAt(w) \notin slipped
      /\ imp[w].pc = "table"
  BY SubIn DEF SearchTable, Slip
<1>2. ASSUME NEW f \in fps, f.audio = AudioAt(w) PROVE f.id \in imp'[w].seen
  <2>1. f.id \in FpIds /\ f.audio \in Audio /\ imp[w].max \in 0 .. MaxFp /\ MaxFp \in Nat
    BY ImportAssumption DEF Typed, Import
  <2>2. Sub(w) \in Subs \ Useless
    BY <1>1, SubIn DEF ImportSound, States
  <2>3. Common(f, w) > 0
    BY <1>2, <2>2, ImportAssumption DEF Common, AudioAt
  <2>4. f \in Visible(w)
    <3>1. CASE f.id <= imp[w].max
      <4>1. f.id \in indexed
        BY <1>1, <1>2, <3>1 DEF NeverIndexed
      <4>2. f.id \in imp[w].seen
        BY <1>1, <1>2, <3>1, <4>1 DEF CandidatesSound
      <4>3. QED BY <4>2 DEF Visible
    <3>2. CASE f.id > imp[w].max
      BY <2>3, <3>2 DEF Visible
    <3>3. f.id <= imp[w].max \/ f.id > imp[w].max
      BY <2>1 DEF FpIds
    <3>4. QED BY <3>1, <3>2, <3>3
  <2>5. Score[f.audio][AudioAt(w)] = 100
    BY <1>2, <2>1, ImportAssumption
  <2>6. Length[f.audio] \in Nat
    BY <2>1, ImportAssumption
  <2>7. Near(f.audio, AudioAt(w))
    BY <1>2, <2>6 DEF Near, FINGERPRINT_MAX_LENGTH_DIFF
  <2>8. f \in Matches(w)
    BY <2>4, <2>5, <2>7 DEF Matches, TRACK_MERGE_THRESHOLD
  <2>9. QED BY <2>8, SearchEffect
<1>3. QED BY <1>1, <1>2

\* A choice that slips past nothing counts on the fingerprint of the audio, if there
\* is one.
LEMMA NothingSlips ==
  ASSUME Typed, NEW w \in Workers, ChooseTrack(w), Alone(w), AudioAt(w) \notin slipped',
         imp'[w].pc = "insert"
  PROVE  \A f \in fps : f.audio # AudioAt(w)
<1>1. ~ Refused(w) /\ imp[w].pc = "choose" /\ AudioAt(w) \notin slipped
  BY SubIn DEF ChooseTrack, Slip
<1>2. SUFFICES ASSUME NEW f \in fps, f.audio = AudioAt(w) PROVE FALSE
  OBVIOUS
<1>3. f.id \in imp[w].seen
  BY <1>1, <1>2 DEF Alone
<1>4. CanAddFpToTrack(f.track, AudioAt(w))
  BY <1>1, <1>2 DEF Refused
<1>5. f \in Candidates(w)
  BY <1>3, <1>4 DEF Candidates
<1>6. ~ (Score[f.audio][AudioAt(w)] > FINGERPRINT_MERGE_THRESHOLD)
  BY <1>5, ChooseEffect
<1>7. Score[f.audio][AudioAt(w)] = 100
  BY <1>2, SubIn, ImportAssumption
<1>8. QED BY <1>6, <1>7 DEF FINGERPRINT_MERGE_THRESHOLD

\* An import that inserts has its lock still, or has committed the ingest half.
LEMMA InsertingHolds ==
  ASSUME Typed, NEW v \in Workers, ImportSound(v), Inserting(v)
  PROVE  HoldsFp(v) \/ (imp[v].pc = "commit" /\ imp[v].left = {"fingerprint"})
<1>1. imp[v].left \subseteq Databases
  BY DEF Typed, Import
<1>2. CASE imp[v].pc = "commit"
  BY <1>1, <1>2 DEF Inserting, HoldsFp, Open, Busy, Databases
<1>3. CASE imp[v].pc # "commit"
  BY <1>3 DEF Inserting, HoldsFp, Open, Busy
<1>4. QED BY <1>2, <1>3

\* The search for the audio is over, and its outcome not committed.
Decided(w) == Inserting(w) \/ imp[w].pc = "choose"

\* Whoever has searched is alone with the audio, and knows what has it.
LEMMA StepAlone ==
  ASSUME Typed, LocksHeld, IndexSound, ImportsSound,
         \A v \in Workers : Alone(v) /\ CandidatesSound(v),
         NEW w \in Workers, StepOf(w), NEW x \in Workers
  PROVE  Alone(x)'
<1>1. SUFFICES ASSUME Decided(x)', AudioAt(x)' \notin slipped'
               PROVE  /\ \A v \in Workers \ {x} : Inserting(v)' => AudioAt(v)' # AudioAt(x)'
                      /\ \A f \in fps' : f.audio = AudioAt(x)' =>
                           imp'[x].pc = "choose" /\ f.id \in imp'[x].seen
  BY DEF Alone, Decided
<1>2. slipped \subseteq slipped' /\ WriteSound(w) /\ ImportSound(w)
  BY StepTables DEF ImportsSound
<1>3. ASSUME NEW v \in Workers, Decided(v)'
      PROVE  /\ AudioAt(v)' = AudioAt(v)
             /\ Inserting(v)' => Inserting(v) \/ (v = w /\ ChooseTrack(w))
             /\ Decided(v) \/ (v = w /\ SearchTable(w))
  <2>1. CASE v = w
    <3>1. imp'[w].pc \notin {"idle", "lock_fp"}
      BY <1>3, <2>1 DEF Decided, Inserting
    <3>2. ~ Pick(w)
      BY <3>1, PickedShape
    <3>3. ~ Ends(w)
      BY <3>1, NoneTyped DEF Ends, Typed
    <3>4. Onward(w)
      BY <1>2, <3>2, <3>3, StepShape
    <3>5. Inserting(w)' => Inserting(w) \/ ChooseTrack(w)
      BY <3>4 DEF Onward
    <3>6. imp'[w].pc = "choose" => SearchTable(w)
      BY <1>2, SearchOrder
    <3>7. ChooseTrack(w) => imp[w].pc = "choose"
      BY DEF ChooseTrack
    <3>8. AudioAt(w)' = AudioAt(w)
      BY <3>4 DEF Onward, AudioAt, Sub
    <3>9. Inserting(w)' \/ imp'[w].pc = "choose"
      BY <1>3, <2>1 DEF Decided, Inserting, Open, Busy
    <3>10. Decided(w) \/ SearchTable(w)
      BY <3>5, <3>6, <3>7, <3>9 DEF Decided
    <3>11. Inserting(v)' => Inserting(w) \/ ChooseTrack(w)
      BY <2>1, <3>5 DEF Inserting, Open, Busy
    <3>12. QED BY <2>1, <3>8, <3>10, <3>11 DEF AudioAt, Sub
  <2>2. CASE v # w
    <3>1. imp'[v] = imp[v]
      BY <2>2, StepFrame
    <3>2. QED BY <1>3, <3>1 DEF Decided, Inserting, Open, Busy, AudioAt, Sub
  <2>3. QED BY <2>1, <2>2
<1>4. PICK a : a = AudioAt(x)
  OBVIOUS
<1>5. AudioAt(x)' = a /\ a \notin slipped /\ a \notin slipped'
  BY <1>1, <1>2, <1>3, <1>4
<1>6. CASE x = w /\ SearchTable(w)
  <2>1. fps' = fps /\ ~ ChooseTrack(w)
    BY <1>6 DEF SearchTable, ChooseTrack, fingerprint
  <2>2. imp'[w].pc = "choose" /\ HoldsFp(w)
    BY <1>6, SearchEffect DEF HoldsFp, Open, Busy
  <2>3. /\ \A f \in fps : f.audio = AudioAt(w) => f.id \in imp'[w].seen
        /\ ~ HalfCommitted(w)
    BY <1>2, <1>4, <1>5, <1>6, NothingMissed
  <2>4. ASSUME NEW v \in Workers \ {w}, Inserting(v)' PROVE AudioAt(v)' # a
    <3>1. Inserting(v) /\ AudioAt(v)' = AudioAt(v)
      BY <1>3, <2>1, <2>4 DEF Decided
    <3>2. HoldsFp(v) \/ (imp[v].pc = "commit" /\ imp[v].left = {"fingerprint"})
      BY <3>1, InsertingHolds DEF ImportsSound
    <3>3. QED BY <1>4, <1>6, <2>2, <2>3, <2>4, <3>1, <3>2 DEF LocksHeld, HalfCommitted
  <2>5. QED BY <1>4, <1>5, <1>6, <2>1, <2>2, <2>3, <2>4
<1>7. CASE ~ (x = w /\ SearchTable(w))
  <2>1. Decided(x)
    BY <1>1, <1>3, <1>7
  <2>2. /\ \A v \in Workers \ {x} : Inserting(v) => AudioAt(v) # a
        /\ \A f \in fps : f.audio = a => imp[x].pc = "choose" /\ f.id \in imp[x].seen
    BY <1>4, <1>5, <2>1 DEF Alone, Decided
  <2>3. ASSUME NEW v \in Workers \ {x}, Inserting(v)' PROVE AudioAt(v)' # a
    <3>1. AudioAt(v)' = AudioAt(v) /\ (Inserting(v) \/ (v = w /\ ChooseTrack(w)))
      BY <1>3, <2>3 DEF Decided
    <3>2. CASE Inserting(v)
      BY <2>2, <2>3, <3>1, <3>2
    <3>3. CASE v = w /\ ChooseTrack(w) /\ AudioAt(w) = a
      <4>1. HoldsFp(w) /\ imp[w].pc = "choose"
        BY <3>3 DEF ChooseTrack, HoldsFp, Open, Busy
      <4>2. ~ Inserting(x)
        BY <1>4, <1>5, <2>3, <3>3, <4>1 DEF Alone
      <4>3. HoldsFp(x)
        BY <2>1, <4>2 DEF Decided, HoldsFp, Open, Busy
      <4>4. QED BY <1>4, <2>3, <3>3, <4>1, <4>3 DEF LocksHeld
    <3>4. QED BY <3>1, <3>2, <3>3
  <2>4. ASSUME NEW f \in fps', f.audio = a PROVE imp'[x].pc = "choose" /\ f.id \in imp'[x].seen
    <3>1. f \in fps
      <4>1. SUFFICES ASSUME f \notin fps PROVE FALSE
        OBVIOUS
      <4>2. CommitFingerprint(w) /\ AudioAt(w) = a /\ Inserting(w)
        BY <2>4, <4>1, NewRow
      <4>3. x = w
        BY <2>2, <4>2
      <4>4. CommitOf(w, "fingerprint")
        BY <4>2 DEF CommitFingerprint
      <4>5. imp'[w].left = imp[w].left \ {"fingerprint"} /\ (Ends(w) \/ imp'[w].pc = "commit")
        BY <4>4, CommitEffect
      <4>6. ~ Inserting(w)' /\ imp'[w].pc # "choose"
        BY <4>5, EndedShape DEF Inserting, Open, Busy
      <4>7. QED BY <1>1, <4>3, <4>6 DEF Decided, Inserting, Open, Busy
    <3>2. imp[x].pc = "choose" /\ f.id \in imp[x].seen
      BY <2>2, <2>4, <3>1
    <3>3. CASE x # w
      BY <3>2, <3>3, StepFrame
    <3>4. CASE x = w
      <4>1. ~ Ends(w)
        <5>1. imp'[w].pc # "idle"
          BY <1>1, <3>4 DEF Decided, Inserting
        <5>2. QED BY <5>1, NoneTyped DEF Ends, Typed
      <4>2. ChooseTrack(w)
        BY <1>2, <3>2, <3>4, <4>1, SearchOrder
      <4>3. imp'[w].pc = "insert"
        BY <1>1, <3>4, <4>2, ChooseEffect DEF Decided, Inserting
      <4>4. f.audio # AudioAt(w)
        BY <1>4, <1>5, <3>1, <3>4, <4>2, <4>3, NothingSlips
      <4>5. QED BY <1>4, <2>4, <3>4, <4>4
    <3>5. QED BY <3>3, <3>4
  <2>5. QED BY <1>5, <2>3, <2>4
<1>8. QED BY <1>6, <1>7

\* A new fingerprint of the same audio is one that slipped past the search.
LEMMA StepNoTwins ==
  ASSUME Typed, NoTwins, NEW w \in Workers, Alone(w), StepOf(w)
  PROVE  NoTwins'
<1>1. slipped \subseteq slipped'
  BY StepTables
<1>2. CASE CommitFingerprint(w) /\ imp[w].new
  <2>1. PICK r : r = [id |-> imp[w].fp, audio |-> AudioAt(w), track |-> imp[w].track]
    OBVIOUS
  <2>2. fps' = fps \cup {r} /\ r.audio = AudioAt(w)
    BY <1>2, <2>1 DEF CommitFingerprint
  <2>3. Inserting(w)
    BY <1>2, FingerprintCommitted DEF CommitOf, Inserting, Writes
  <2>4. r.audio \notin slipped => \A f \in fps : f.audio # r.audio
    <3>1. imp[w].pc # "choose"
      BY <1>2 DEF CommitFingerprint, CommitOf
    <3>2. QED BY <2>2, <2>3, <3>1 DEF Alone
  <2>5. QED BY <1>1, <2>2, <2>4 DEF NoTwins
<1>3. CASE ~ (CommitFingerprint(w) /\ imp[w].new)
  <2>1. fps' = fps
    BY <1>3, StepTables DEF CommitFingerprint, fingerprint
  <2>2. QED BY <1>1, <2>1 DEF NoTwins
<1>4. QED BY <1>2, <1>3

-----------------------------------------------------------------------------
(* Counts *)

One(b) == IF b THEN 1 ELSE 0

\* w has committed its import of f everywhere but in db.
HalfOf(w, f, db) ==
  /\ imp[w].pc = "commit" /\ imp[w].left = {db}
  /\ Sub(w) \notin Useless /\ imp[w].fp = f

HalfSet(f, db) == {w \in Workers : HalfOf(w, f, db)}
SourceSet(f) == {r \in sources : r.fp = f}

\* Half counts them.
LEMMA HalfIs == \A f, db : Half(f, db) = Cardinality(HalfSet(f, db))
BY DEF Half, HalfSet, HalfOf

\* A set in which only w comes or goes.
LEMMA OneInOrOut ==
  ASSUME NEW S, IsFiniteSet(S), NEW T, NEW w, \A x : x # w => (x \in S <=> x \in T)
  PROVE  /\ IsFiniteSet(T) /\ Cardinality(S) \in Nat /\ Cardinality(T) \in Nat
         /\ Cardinality(T) = Cardinality(S) + One(w \in T) - One(w \in S)
<1>0. Cardinality(S) \in Nat
  BY FS_CardinalityType
<1>1. CASE w \in S /\ w \notin T
  <2>1. T = S \ {w}
    BY <1>1
  <2>2. IsFiniteSet(T) /\ Cardinality(T) = Cardinality(S) - 1
    BY <1>1, <2>1, FS_RemoveElement
  <2>3. Cardinality(T) \in Nat
    BY <2>2, FS_CardinalityType
  <2>4. QED BY <1>0, <1>1, <2>2, <2>3 DEF One
<1>2. CASE w \notin S /\ w \in T
  <2>1. T = S \cup {w}
    BY <1>2
  <2>2. IsFiniteSet(T) /\ Cardinality(T) = Cardinality(S) + 1
    BY <1>2, <2>1, FS_AddElement
  <2>3. QED BY <1>0, <1>2, <2>2 DEF One
<1>3. CASE w \in S <=> w \in T
  <2>1. T = S
    BY <1>3
  <2>2. QED BY <1>0, <2>1 DEF One
<1>4. QED BY <1>1, <1>2, <1>3

\* A step moves its own import into a half or out of it.
LEMMA HalfChanged ==
  ASSUME Typed, NEW w \in Workers, StepOf(w), NEW f, NEW db
  PROVE  /\ Half(f, db) \in Nat /\ Half(f, db)' \in Nat
         /\ Half(f, db)' = Half(f, db) + One(HalfOf(w, f, db)') - One(HalfOf(w, f, db))
<1>1. PICK S : S = HalfSet(f, db)
  OBVIOUS
<1>2. PICK T : T = HalfSet(f, db)'
  OBVIOUS
<1>3. IsFiniteSet(S)
  <2>1. S \subseteq Workers
    BY <1>1 DEF HalfSet
  <2>2. QED BY <2>1, ImportAssumption, FS_Subset
<1>4. \A x : x \in S <=> x \in Workers /\ HalfOf(x, f, db)
  BY <1>1 DEF HalfSet
<1>5. \A x : x \in T <=> x \in Workers /\ HalfOf(x, f, db)'
  BY <1>2 DEF HalfSet, HalfOf, Sub
<1>6. ASSUME NEW x, x # w PROVE x \in S <=> x \in T
  <2>1. CASE x \in Workers
    <3>1. imp'[x] = imp[x]
      BY <1>6, <2>1, StepFrame
    <3>2. QED BY <1>4, <1>5, <3>1 DEF HalfOf, Sub
  <2>2. CASE x \notin Workers
    BY <1>4, <1>5, <2>2
  <2>3. QED BY <2>1, <2>2
<1>7. /\ Cardinality(S) \in Nat /\ Cardinality(T) \in Nat
      /\ Cardinality(T) = Cardinality(S) + One(w \in T) - One(w \in S)
  BY <1>3, <1>6, OneInOrOut
<1>8. Half(f, db) = Cardinality(S) /\ Half(f, db)' = Cardinality(T)
  BY <1>1, <1>2 DEF Half, HalfSet, HalfOf
<1>9. One(w \in S) = One(HalfOf(w, f, db))
  BY <1>4 DEF One
<1>10. One(w \in T) = One(HalfOf(w, f, db)')
  BY <1>5 DEF One, HalfOf, Sub
<1>11. QED BY <1>7, <1>8, <1>9, <1>10

\* There are finitely many rows of fingerprint_source: one of each submission.
LEMMA SourcesFinite ==
  ASSUME Typed, SourcesSound
  PROVE  IsFiniteSet(sources)
<1> DEFINE g == [r \in sources |-> r.sub]
<1>1. \A r \in sources : r.sub \in Subs
  BY DEF Typed
<1>2. g \in [sources -> Subs]
  BY <1>1
<1>3. \A q, r \in sources : g[q] = g[r] => q = r
  BY DEF SourcesSound
<1>4. DOMAIN g = sources
  OBVIOUS
<1> HIDE DEF g
<1>5. g \in Injection(sources, Subs)
  BY <1>2, <1>3, <1>4 DEF Injection, IsInjective
<1>6. QED BY <1>5, ImportAssumption, FS_Injection

\* The ingest half of a commit adds the row of its import.
LEMMA SourcesChanged ==
  ASSUME TypeOK, SourcesSound, ImportsSound, NEW w \in Workers, StepOf(w), NEW f
  PROVE  /\ Cardinality(SourceSet(f)) \in Nat /\ Cardinality(SourceSet(f)') \in Nat
         /\ Cardinality(SourceSet(f)') = Cardinality(SourceSet(f))
                + One(CommitIngest(w) /\ Sub(w) \notin Useless /\ imp[w].fp = f)
<1>1. PICK S : S = SourceSet(f)
  OBVIOUS
<1>2. PICK T : T = SourceSet(f)'
  OBVIOUS
<1>3. IsFiniteSet(S) /\ Cardinality(S) \in Nat
  <2>1. S \subseteq sources
    BY <1>1 DEF SourceSet
  <2>2. IsFiniteSet(sources)
    BY SourcesFinite DEF TypeOK
  <2>3. QED BY <2>1, <2>2, FS_Subset, FS_CardinalityType
<1>4. CASE CommitIngest(w) /\ Sub(w) \notin Useless
  <2>1. PICK q : q = [sub |-> Sub(w), fp |-> imp[w].fp]
    OBVIOUS
  <2>2. sources' = sources \cup {q} /\ q.fp = imp[w].fp /\ q.sub = Sub(w)
    BY <1>4, <2>1 DEF CommitIngest
  <2>3. q \notin sources
    BY <1>4, <2>2, IngestCommitted DEF SourcesSound
  <2>4. CASE imp[w].fp = f
    <3>1. T = S \cup {q} /\ q \notin S
      BY <1>1, <1>2, <2>2, <2>3, <2>4 DEF SourceSet
    <3>2. Cardinality(T) = Cardinality(S) + 1
      BY <1>3, <3>1, FS_AddElement
    <3>3. QED BY <1>1, <1>2, <1>3, <1>4, <2>4, <3>2 DEF One
  <2>5. CASE imp[w].fp # f
    <3>1. T = S
      BY <1>1, <1>2, <2>2, <2>5 DEF SourceSet
    <3>2. QED BY <1>1, <1>2, <1>3, <2>5, <3>1 DEF One
  <2>6. QED BY <2>4, <2>5
<1>5. CASE ~ (CommitIngest(w) /\ Sub(w) \notin Useless)
  <2>1. sources' = sources
    BY <1>5, StepTables DEF CommitIngest, ingest, TypeOK
  <2>2. T = S
    BY <1>1, <1>2, <2>1 DEF SourceSet
  <2>3. QED BY <1>1, <1>2, <1>3, <1>5, <2>2 DEF One
<1>6. QED BY <1>4, <1>5
Commits(w) == CommitIngest(w) \/ CommitFingerprint(w) \/ CommitNothing(w)

\* A whole commit is no half of one.
LEMMA WholeNotHalf ==
  ASSUME NEW w \in Workers, imp[w].pc # "commit" \/ imp[w].left = Databases
  PROVE  \A f, db : ~ HalfOf(w, f, db)
<1>1. Databases # {"ingest"} /\ Databases # {"fingerprint"} /\ \A db : Databases # {db}
  BY DEF Databases
<1>2. QED BY <1>1 DEF HalfOf

\* Before and after a step that neither commits nor dies in between, an import is
\* not between its commits.
LEMMA StepNotHalf ==
  ASSUME Typed, NEW w \in Workers, ImportSound(w), WriteSound(w), StepOf(w),
         ~ Commits(w), ~ TornCommit(w)
  PROVE  \A f, db : ~ HalfOf(w, f, db) /\ ~ HalfOf(w, f, db)'
<1> USE DEF Goto
<1>0. imp[w] \in Import /\ imp \in [Workers -> Import]
  BY DEF Typed
<1>1. /\ imp[w].pc # "commit" \/ imp[w].left = Databases
      /\ imp'[w].pc # "commit" \/ imp'[w].left = Databases
  <2>1. CASE Pick(w)
    BY <2>1, PickedShape DEF Pick
  <2>2. CASE LockFp(w)
    BY <2>2, <1>0 DEF LockFp, Import
  <2>3. CASE LockMbid(w)
    BY <2>3, <1>0 DEF LockMbid, Import
  <2>4. CASE Related(w)
    BY <2>4, <1>0, NoneTyped DEF Related, Taken
  <2>5. CASE SkipUseless(w)
    BY <2>5, <1>0 DEF SkipUseless, Import
  <2>6. CASE ReadMax(w)
    BY <2>6, <1>0 DEF ReadMax, Import
  <2>7. CASE SearchIndex(w) \/ SearchTable(w) \/ ChooseTrack(w)
    BY <2>7, SearchEffect, ChooseEffect
  <2>8. CASE Insert(w)
    BY <2>8, InsertEffect
  <2>9. CASE Inserted(w)
    BY <2>9, <1>0 DEF Inserted, Import
  <2>10. CASE Counted(w)
    BY <2>10, <1>0 DEF Counted, Import
  <2>11. CASE Linked(w)
    BY <2>11, <1>0 DEF Linked, Import
  <2>12. CASE Fail(w)
    BY <2>12, <1>0, NoneTyped DEF Fail
  <2> QED
    BY <2>1, <2>2, <2>3, <2>4, <2>5, <2>6, <2>7, <2>8, <2>9, <2>10, <2>11, <2>12
       DEF StepOf, ImportStep, Commits
<1>2. \A f, db : ~ HalfOf(w, f, db)
  BY <1>1, WholeNotHalf
<1>3. \A f, db : ~ HalfOf(w, f, db)'
  <2>1. \A db : Databases # {db}
    BY DEF Databases
  <2>2. QED BY <1>1, <2>1 DEF HalfOf
<1>4. QED BY <1>2, <1>3

\* A commit of db ends the half of the other one, or begins it.
LEMMA CommitHalf ==
  ASSUME Typed, NEW w \in Workers, NEW db \in Databases, CommitOf(w, db), NEW f,
         NEW other \in Databases, other # db
  PROVE  /\ HalfOf(w, f, other)' <=>
              imp[w].left = Databases /\ Sub(w) \notin Useless /\ imp[w].fp = f
         /\ HalfOf(w, f, db) <=>
              imp[w].left # Databases /\ Sub(w) \notin Useless /\ imp[w].fp = f
         /\ ~ HalfOf(w, f, other) /\ ~ HalfOf(w, f, db)'
<1>1. Databases = {db, other}
  BY DEF Databases
<1>2. /\ imp[w].pc = "commit" /\ db \in imp[w].left /\ imp[w].left \subseteq Databases
      /\ imp'[w].left = imp[w].left \ {db}
      /\ imp[w].left # {db} =>
           imp'[w].pc = "commit" /\ imp'[w].sub = imp[w].sub /\ imp'[w].fp = imp[w].fp
  BY CommitEffect DEF Typed, Import
<1>3. CASE imp[w].left = {db}
  <2>1. imp'[w].left = {} /\ {db} # Databases /\ {db} # {other}
    BY <1>1, <1>2, <1>3
  <2>2. QED BY <1>2, <1>3, <2>1 DEF HalfOf, Sub
<1>4. CASE imp[w].left # {db}
  <2>1. imp[w].left = Databases /\ imp'[w].left = {other}
    BY <1>1, <1>2, <1>4
  <2>2. Databases # {db} /\ Databases # {other} /\ {other} # {db}
    BY <1>1
  <2>3. QED BY <1>2, <1>4, <2>1, <2>2 DEF HalfOf, Sub
<1>5. QED BY <1>3, <1>4

\* submission_count goes up with the commit of the fingerprint half.
LEMMA CountChanged ==
  ASSUME Typed, ImportsSound, NEW w \in Workers, StepOf(w), NEW f \in FpIds
  PROVE  /\ count[f] \in Nat /\ count'[f] \in Nat
         /\ count'[f] = count[f] + One(CommitFingerprint(w) /\ imp[w].fp = f)
<1>1. count[f] \in Nat
  BY DEF Typed
<1>2. CASE CommitFingerprint(w)
  <2>1. PICK i : i = imp[w].fp
    OBVIOUS
  <2>2. i \in FpIds /\ count' = [count EXCEPT ![i] = count[i] + 1] /\ count \in [FpIds -> Nat]
    BY <1>2, <2>1, CommittedRow DEF Typed
  <2>3. CASE i = f
    BY <1>1, <1>2, <2>1, <2>2, <2>3 DEF One
  <2>4. CASE i # f
    BY <1>1, <1>2, <2>1, <2>2, <2>4 DEF One
  <2>5. QED BY <2>3, <2>4
<1>3. CASE ~ CommitFingerprint(w)
  BY <1>1, <1>3, StepTables DEF One, fingerprint
<1>4. QED BY <1>2, <1>3

\* A torn commit is remembered by the half that was done.
LEMMA DriftChanged ==
  ASSUME Typed, HistorySound, ImportsSound, NEW w \in Workers, StepOf(w), NEW f \in FpIds
  PROVE  /\ drift[f] \in Int /\ drift'[f] \in Int
         /\ drift'[f] = drift[f]
              + One(TornCommit(w) /\ HalfOf(w, f, "ingest"))
              - One(TornCommit(w) /\ HalfOf(w, f, "fingerprint"))
<1>1. drift[f] \in Int /\ drift \in [FpIds -> Int]
  BY DEF HistorySound
<1>2. {"ingest"} # {"fingerprint"}
  OBVIOUS
<1>3. CASE TornCommit(w) /\ Sub(w) \notin Useless
  <2>1. PICK i : i = imp[w].fp
    OBVIOUS
  <2>2. i \in FpIds
    BY <1>3, <2>1, WrittenIn DEF TornCommit, Writing, ImportsSound
  <2>3. /\ imp[w].pc = "commit"
        /\ imp[w].left = {"ingest"} \/ imp[w].left = {"fingerprint"}
    <3>1. imp[w].pc = "commit" /\ imp[w].left # Databases /\ imp[w].left \subseteq Databases
      BY <1>3 DEF TornCommit, Typed, Import
    <3>2. imp[w].left # {}
      BY <3>1 DEF ImportsSound, ImportSound
    <3>3. QED BY <3>1, <3>2 DEF Databases
  <2>4. CASE imp[w].left = {"ingest"}
    <3>1. drift' = [drift EXCEPT ![i] = drift[i] + 1]
      BY <1>3, <2>1, <2>4 DEF TornCommit
    <3>2. HalfOf(w, f, "ingest") <=> i = f
      BY <1>3, <2>1, <2>3, <2>4 DEF HalfOf
    <3>3. ~ HalfOf(w, f, "fingerprint")
      BY <1>2, <2>4 DEF HalfOf
    <3>4. CASE i = f
      BY <1>1, <1>3, <2>2, <3>1, <3>2, <3>3, <3>4 DEF One
    <3>5. CASE i # f
      BY <1>1, <1>3, <2>2, <3>1, <3>2, <3>3, <3>5 DEF One
    <3>6. QED BY <3>4, <3>5
  <2>5. CASE imp[w].left = {"fingerprint"}
    <3>1. drift' = [drift EXCEPT ![i] = drift[i] - 1]
      BY <1>2, <1>3, <2>1, <2>5 DEF TornCommit
    <3>2. HalfOf(w, f, "fingerprint") <=> i = f
      BY <1>3, <2>1, <2>3, <2>5 DEF HalfOf
    <3>3. ~ HalfOf(w, f, "ingest")
      BY <1>2, <2>5 DEF HalfOf
    <3>4. CASE i = f
      BY <1>1, <1>3, <2>2, <3>1, <3>2, <3>3, <3>4 DEF One
    <3>5. CASE i # f
      BY <1>1, <1>3, <2>2, <3>1, <3>2, <3>3, <3>5 DEF One
    <3>6. QED BY <3>4, <3>5
  <2>6. QED BY <2>3, <2>4, <2>5
<1>4. CASE TornCommit(w) /\ Sub(w) \in Useless
  <2>1. drift' = drift /\ ~ HalfOf(w, f, "ingest") /\ ~ HalfOf(w, f, "fingerprint")
    BY <1>4 DEF TornCommit, HalfOf
  <2>2. QED BY <1>1, <2>1 DEF One
<1>5. CASE ~ TornCommit(w)
  BY <1>1, <1>5, StepTables DEF One
<1>6. QED BY <1>3, <1>4, <1>5
\* A step is a commit of one database or the death of an importer, not both.
LEMMA StepsDiffer ==
  ASSUME TypeOK, HistorySound, ImportsSound, NEW w \in Workers
  PROVE  /\ ~ (CommitIngest(w) /\ (CommitFingerprint(w) \/ CommitNothing(w)))
         /\ ~ (Commits(w) /\ TornCommit(w))
<1>1. ASSUME CommitIngest(w), UNCHANGED ingest PROVE FALSE
  BY <1>1, IngestCommitted DEF ingest
<1>2. ASSUME Commits(w), faults' = faults + 1 PROVE FALSE
  <2>1. faults' = faults
    BY <1>2 DEF Commits, CommitIngest, CommitFingerprint, CommitNothing
  <2>2. QED BY <1>2, <2>1 DEF HistorySound
<1>3. QED BY <1>1, <1>2 DEF CommitFingerprint, CommitNothing, TornCommit

\* The two sides of CountsExplained change by the same number.
LEMMA StepCounts ==
  ASSUME TypeOK, HistorySound, SourcesSound, ImportsSound, CountsExplained,
         NEW w \in Workers, StepOf(w)
  PROVE  CountsExplained'
<1>0. Typed /\ ImportSound(w) /\ WriteSound(w)
  BY DEF TypeOK, ImportsSound
<1>1. SUFFICES ASSUME NEW f \in FpIds
               PROVE  (count[f] + Half(f, "fingerprint") =
                         Cardinality({r \in sources : r.fp = f}) + Half(f, "ingest") + drift[f])'
  BY DEF CountsExplained
<1>2. PICK c, hf, s, hi, d :
        c = count[f] /\ hf = Half(f, "fingerprint") /\ s = Cardinality(SourceSet(f))
        /\ hi = Half(f, "ingest") /\ d = drift[f]
  OBVIOUS
<1>3. PICK c2, hf2, s2, hi2, d2 :
        c2 = count'[f] /\ hf2 = Half(f, "fingerprint")' /\ s2 = Cardinality(SourceSet(f)')
        /\ hi2 = Half(f, "ingest")' /\ d2 = drift'[f]
  OBVIOUS
<1>4. c + hf = s + hi + d
  BY <1>2 DEF CountsExplained, SourceSet
<1>5. PICK oc : oc = One(CommitFingerprint(w) /\ imp[w].fp = f)
  OBVIOUS
<1>6. PICK os : os = One(CommitIngest(w) /\ Sub(w) \notin Useless /\ imp[w].fp = f)
  OBVIOUS
<1>7. PICK f1, f2 : f1 = One(HalfOf(w, f, "fingerprint")) /\ f2 = One(HalfOf(w, f, "fingerprint")')
  OBVIOUS
<1>8. PICK i1, i2 : i1 = One(HalfOf(w, f, "ingest")) /\ i2 = One(HalfOf(w, f, "ingest")')
  OBVIOUS
<1>9. PICK up, down : /\ up = One(TornCommit(w) /\ HalfOf(w, f, "ingest"))
                      /\ down = One(TornCommit(w) /\ HalfOf(w, f, "fingerprint"))
  OBVIOUS
<1>10. c \in Nat /\ c2 \in Nat /\ c2 = c + oc
  BY <1>0, <1>2, <1>3, <1>5, CountChanged
<1>11. s \in Nat /\ s2 \in Nat /\ s2 = s + os
  BY <1>2, <1>3, <1>6, SourcesChanged
<1>12. hf \in Nat /\ hf2 \in Nat /\ hf2 = hf + f2 - f1
  BY <1>0, <1>2, <1>3, <1>7, HalfChanged
<1>13. hi \in Nat /\ hi2 \in Nat /\ hi2 = hi + i2 - i1
  BY <1>0, <1>2, <1>3, <1>8, HalfChanged
<1>14. d \in Int /\ d2 \in Int /\ d2 = d + up - down
  BY <1>0, <1>2, <1>3, <1>9, DriftChanged
<1>15. /\ oc \in {0, 1} /\ os \in {0, 1} /\ f1 \in {0, 1} /\ f2 \in {0, 1}
       /\ i1 \in {0, 1} /\ i2 \in {0, 1} /\ up \in {0, 1} /\ down \in {0, 1}
  BY <1>5, <1>6, <1>7, <1>8, <1>9 DEF One
<1>16. oc + f2 - f1 = os + i2 - i1 + up - down
  <2>1. CASE CommitIngest(w)
    <3>1. ~ CommitFingerprint(w) /\ ~ TornCommit(w) /\ CommitOf(w, "ingest")
      BY <2>1, StepsDiffer DEF Commits, CommitIngest
    <3>2. /\ HalfOf(w, f, "fingerprint")' <=>
               imp[w].left = Databases /\ Sub(w) \notin Useless /\ imp[w].fp = f
          /\ HalfOf(w, f, "ingest") <=>
               imp[w].left # Databases /\ Sub(w) \notin Useless /\ imp[w].fp = f
          /\ ~ HalfOf(w, f, "fingerprint") /\ ~ HalfOf(w, f, "ingest")'
      <4>1. "ingest" \in Databases /\ "fingerprint" \in Databases /\ "fingerprint" # "ingest"
        BY DEF Databases
      <4>2. QED BY <1>0, <3>1, <4>1, CommitHalf
    <3>3. oc = 0 /\ up = 0 /\ down = 0 /\ f1 = 0 /\ i2 = 0
      BY <1>5, <1>7, <1>8, <1>9, <3>1, <3>2 DEF One
    <3>4. f2 + i1 = os
      BY <1>6, <1>7, <1>8, <2>1, <3>2 DEF One
    <3>5. QED BY <1>15, <3>3, <3>4
  <2>2. CASE CommitFingerprint(w) \/ CommitNothing(w)
    <3>1. ~ CommitIngest(w) /\ ~ TornCommit(w) /\ CommitOf(w, "fingerprint")
      BY <2>2, StepsDiffer DEF Commits, CommitFingerprint, CommitNothing
    <3>2. /\ HalfOf(w, f, "ingest")' <=>
               imp[w].left = Databases /\ Sub(w) \notin Useless /\ imp[w].fp = f
          /\ HalfOf(w, f, "fingerprint") <=>
               imp[w].left # Databases /\ Sub(w) \notin Useless /\ imp[w].fp = f
          /\ ~ HalfOf(w, f, "ingest") /\ ~ HalfOf(w, f, "fingerprint")'
      <4>1. "ingest" \in Databases /\ "fingerprint" \in Databases /\ "fingerprint" # "ingest"
        BY DEF Databases
      <4>2. QED BY <1>0, <3>1, <4>1, CommitHalf
    <3>3. os = 0 /\ up = 0 /\ down = 0 /\ i1 = 0 /\ f2 = 0
      BY <1>6, <1>7, <1>8, <1>9, <3>1, <3>2 DEF One
    <3>4. CommitFingerprint(w) <=> Sub(w) \notin Useless
      BY <2>2 DEF CommitFingerprint, CommitNothing
    <3>5. i2 + f1 = oc
      BY <1>5, <1>7, <1>8, <3>2, <3>4 DEF One
    <3>6. QED BY <1>15, <3>3, <3>5
  <2>3. CASE TornCommit(w)
    <3>1. ~ Commits(w) /\ Ends(w)
      BY <2>3, StepsDiffer DEF TornCommit, Ends
    <3>2. imp'[w].pc = "idle"
      BY <1>0, <3>1, NoneTyped DEF Ends, Typed
    <3>3. ~ HalfOf(w, f, "ingest")' /\ ~ HalfOf(w, f, "fingerprint")'
      BY <3>2 DEF HalfOf
    <3>4. oc = 0 /\ os = 0 /\ i2 = 0 /\ f2 = 0
      BY <1>5, <1>6, <1>7, <1>8, <3>1, <3>3 DEF One, Commits
    <3>5. up = i1 /\ down = f1
      BY <1>7, <1>8, <1>9, <2>3 DEF One
    <3>6. QED BY <1>15, <3>4, <3>5
  <2>4. CASE ~ Commits(w) /\ ~ TornCommit(w)
    <3>1. \A g, db : ~ HalfOf(w, g, db) /\ ~ HalfOf(w, g, db)'
      BY <1>0, <2>4, StepNotHalf
    <3>2. oc = 0 /\ os = 0 /\ up = 0 /\ down = 0
      BY <1>5, <1>6, <1>9, <2>4 DEF One, Commits
    <3>3. i1 = 0 /\ f1 = 0
      BY <1>7, <1>8, <3>1 DEF One
    <3>4. i2 = 0 /\ f2 = 0
      BY <1>7, <1>8, <3>1 DEF One
    <3>5. QED BY <3>2, <3>3, <3>4
  <2>5. QED BY <2>1, <2>2, <2>3, <2>4 DEF Commits
<1>17. c2 + hf2 = s2 + hi2 + d2
  BY <1>4, <1>10, <1>11, <1>12, <1>13, <1>14, <1>15, <1>16
<1>18. QED BY <1>3, <1>17 DEF SourceSet

-----------------------------------------------------------------------------
(* Totals *)

TrackIds(t) == {f.id : f \in {g \in fps : g.track = t}}

\* The ids of a track's fingerprints are finitely many, and their counts numbers.
LEMMA TrackIdsFinite ==
  ASSUME Typed, NEW t
  PROVE  TrackIds(t) \subseteq FpIds /\ IsFiniteSet(TrackIds(t))
<1>1. TrackIds(t) \subseteq FpIds
  BY DEF TrackIds, Typed
<1>2. IsFiniteSet(FpIds)
  BY ImportAssumption, FS_Interval DEF FpIds
<1>3. QED BY <1>1, <1>2, FS_Subset

\* One more where there was a count.
LEMMA SumOneMore ==
  ASSUME NEW S, IsFiniteSet(S), NEW p \in [S -> Nat], NEW m \in S
  PROVE  SumFunctionOnSet([p EXCEPT ![m] = p[m] + 1], S) = SumFunctionOnSet(p, S) + 1
<1>1. PICK q : q = [p EXCEPT ![m] = p[m] + 1]
  OBVIOUS
<1>2. q \in [S -> Nat] /\ q[m] = p[m] + 1 /\ \A x \in S \ {m} : p[x] = q[x]
  BY <1>1
<1>3. \A x \in S : p[x] \in Int /\ q[x] \in Int
  BY <1>2
<1>4. SumFunctionOnSet(p, S) \in Int
  BY <1>3, SumInt
<1>5. SumFunctionOnSet(q, S) = SumFunctionOnSet(p, S) + q[m] - p[m]
  BY <1>2, <1>3, SumChanged
<1>6. QED BY <1>1, <1>2, <1>4, <1>5

\* The commit of w makes what its track's MBIDs count, or what was imported without
\* one, one more, and leaves other tracks alone.
LEMMA MbidTotals ==
  ASSUME Typed, ImportsSound, NEW w \in Workers, CommitFingerprint(w), NEW t \in FpIds
  PROVE  SumFunctionOnSet(mbids'[t], Mbids) + unnamed'[t] =
           SumFunctionOnSet(mbids[t], Mbids) + unnamed[t] + One(imp[w].track = t)
<1>1. PICK k, m : k = imp[w].track /\ m = MbidOf[Sub(w)]
  OBVIOUS
<1>2. k \in FpIds /\ Named(w) /\ mbids \in [FpIds -> [Mbids -> Nat]] /\ unnamed \in [FpIds -> Nat]
  BY <1>1, CommittedRow DEF CommitFingerprint, Typed
<1>3. PICK p, q, u, v : p = mbids[t] /\ q = mbids'[t] /\ u = unnamed[t] /\ v = unnamed'[t]
  OBVIOUS
<1>4. p \in [Mbids -> Nat] /\ u \in Nat
  BY <1>2, <1>3
<1>5. PICK x, y : x = SumFunctionOnSet(p, Mbids) /\ y = SumFunctionOnSet(q, Mbids)
  OBVIOUS
<1>6. x \in Int
  BY <1>4, <1>5, MbidsFinite, SumInt
<1>7. CASE k = t /\ HasMbid(w)
  <2>1. m \in Mbids /\ mbids' = [mbids EXCEPT ![k] = [mbids[k] EXCEPT ![m] = mbids[k][m] + 1]]
    BY <1>1, <1>2, <1>7 DEF HasMbid, Named
  <2>2. q = [p EXCEPT ![m] = p[m] + 1] /\ v = u
    BY <1>2, <1>3, <1>7, <2>1 DEF Named
  <2>3. y = x + 1
    BY <1>4, <1>5, <2>1, <2>2, MbidsFinite, SumOneMore
  <2>4. y + v = x + u + 1
    BY <1>4, <1>6, <2>2, <2>3
  <2>5. QED BY <1>1, <1>3, <1>5, <1>7, <2>4 DEF One
<1>8. CASE k = t /\ ~ HasMbid(w)
  <2>1. q = p /\ v = u + 1
    BY <1>1, <1>2, <1>3, <1>8 DEF Named
  <2>2. y + v = x + u + 1
    BY <1>4, <1>5, <1>6, <2>1
  <2>3. QED BY <1>1, <1>3, <1>5, <1>8, <2>2 DEF One
<1>9. CASE k # t
  <2>1. q = p /\ v = u
    <3>1. CASE HasMbid(w)
      <4>1. mbids' = [mbids EXCEPT ![k] = [mbids[k] EXCEPT ![m] = mbids[k][m] + 1]]
        BY <1>1, <1>2, <3>1 DEF Named
      <4>2. QED BY <1>2, <1>3, <1>9, <3>1, <4>1 DEF Named
    <3>2. CASE ~ HasMbid(w)
      BY <1>1, <1>2, <1>3, <1>9, <3>2 DEF Named
    <3>3. QED BY <3>1, <3>2
  <2>2. One(imp[w].track = t) = 0
    BY <1>1, <1>9 DEF One
  <2>3. y + v = x + u + 0
    BY <1>4, <1>5, <1>6, <2>1
  <2>4. QED BY <1>3, <1>5, <2>2, <2>3
<1>10. QED BY <1>7, <1>8, <1>9

\* So it makes the counts of its track's fingerprints.
LEMMA FingerprintTotals ==
  ASSUME Typed, RowsSound, ImportsSound, NEW w \in Workers, CommitFingerprint(w), NEW t \in FpIds
  PROVE  SumFunctionOnSet(count', TrackIds(t)') =
           SumFunctionOnSet(count, TrackIds(t)) + One(imp[w].track = t)
<1>1. PICK i, k : i = imp[w].fp /\ k = imp[w].track
  OBVIOUS
<1>2. i \in FpIds /\ k \in FpIds /\ count' = [count EXCEPT ![i] = @ + 1]
  BY <1>1, CommittedRow
<1>3. PICK p, q, S, T : p = count /\ q = count' /\ S = TrackIds(t) /\ T = TrackIds(t)'
  OBVIOUS
<1>4. /\ p \in [FpIds -> Nat] /\ q \in [FpIds -> Nat] /\ q[i] = p[i] + 1
      /\ \A x \in FpIds \ {i} : q[x] = p[x]
  BY <1>2, <1>3 DEF Typed
<1>5. S \subseteq FpIds /\ IsFiniteSet(S)
  BY <1>3, TrackIdsFinite
<1>6. \A x : x \in S <=> \E f \in fps : f.id = x /\ f.track = t
  BY <1>3 DEF TrackIds
<1>7. \A x : x \in T <=> \E f \in fps' : f.id = x /\ f.track = t
  BY <1>3 DEF TrackIds
<1>8. \A x \in S : p[x] \in Int
  BY <1>4, <1>5
<1>9. SumFunctionOnSet(p, S) \in Int
  BY <1>5, <1>8, SumInt
<1>10. ASSUME i \notin S PROVE SumFunctionOnSet(q, S) = SumFunctionOnSet(p, S)
  <2>1. \A x \in S : p[x] = q[x]
    BY <1>4, <1>5, <1>10
  <2>2. QED BY <1>5, <2>1, SumSame
<1>11. CASE imp[w].new
  <2>1. PICK r : r = [id |-> i, audio |-> AudioAt(w), track |-> k]
    OBVIOUS
  <2>2. fps' = fps \cup {r} /\ r.id = i /\ r.track = k /\ \A f \in fps : f.id # i
    BY <1>1, <1>11, <2>1, CommittedRow
  <2>3. i \notin S /\ SumFunctionOnSet(q, S) = SumFunctionOnSet(p, S)
    BY <1>6, <1>10, <2>2
  <2>4. p[i] = 0
    BY <1>2, <1>3, <2>2 DEF RowsSound
  <2>5. CASE k = t
    <3>1. T = S \union {i}
      BY <1>6, <1>7, <2>2, <2>5
    <3>2. SumFunctionOnSet(q, S \union {i}) = q[i] + SumFunctionOnSet(q, S)
      <4>1. \A x \in S \union {i} : q[x] \in Int
        BY <1>2, <1>4, <1>5
      <4>2. QED BY <1>5, <2>3, <4>1, SumWith
    <3>3. SumFunctionOnSet(q, T) = SumFunctionOnSet(p, S) + 1
      BY <1>4, <1>9, <2>3, <2>4, <3>1, <3>2
    <3>4. QED BY <1>1, <1>3, <2>5, <3>3 DEF One
  <2>6. CASE k # t
    <3>1. T = S
      BY <1>6, <1>7, <2>2, <2>6
    <3>2. One(imp[w].track = t) = 0
      BY <1>1, <2>6 DEF One
    <3>3. QED BY <1>3, <1>9, <2>3, <3>1, <3>2
  <2>7. QED BY <2>5, <2>6
<1>12. CASE ~ imp[w].new
  <2>1. fps' = fps /\ \E f \in fps : f.id = i /\ f.track = k
    BY <1>1, <1>12, CommittedRow
  <2>2. T = S
    BY <1>6, <1>7, <2>1
  <2>3. i \in S <=> k = t
    BY <1>6, <2>1 DEF RowsSound
  <2>4. CASE k = t
    <3>1. SumFunctionOnSet(q, S) = SumFunctionOnSet(p, S) + q[i] - p[i]
      <4>1. \A x \in S : p[x] \in Int /\ q[x] \in Int
        BY <1>4, <1>5
      <4>2. \A x \in S \ {i} : p[x] = q[x]
        BY <1>4, <1>5
      <4>3. QED BY <1>5, <2>3, <2>4, <4>1, <4>2, SumChanged
    <3>2. p[i] \in Nat
      BY <1>2, <1>4
    <3>3. SumFunctionOnSet(q, S) = SumFunctionOnSet(p, S) + 1
      BY <1>4, <1>9, <3>1, <3>2
    <3>4. QED BY <1>1, <1>3, <2>2, <2>4, <3>3 DEF One
  <2>5. CASE k # t
    <3>1. SumFunctionOnSet(q, S) = SumFunctionOnSet(p, S)
      BY <1>10, <2>3, <2>5
    <3>2. One(imp[w].track = t) = 0
      BY <1>1, <2>5 DEF One
    <3>3. QED BY <1>3, <1>9, <2>2, <3>1, <3>2
  <2>6. QED BY <2>4, <2>5
<1>13. QED BY <1>11, <1>12

\* Both totals of a track go up together.
LEMMA StepTotals ==
  ASSUME Typed, RowsSound, ImportsSound, TrackTotals, NEW w \in Workers, StepOf(w)
  PROVE  TrackTotals'
<1>1. CASE UNCHANGED fingerprint
  BY <1>1 DEF TrackTotals, fingerprint
<1>2. CASE CommitFingerprint(w)
  <2>1. ASSUME NEW t \in FpIds
        PROVE  SumFunctionOnSet(count', TrackIds(t)') =
                 SumFunctionOnSet(mbids'[t], Mbids) + unnamed'[t]
    <3>1. SumFunctionOnSet(count, TrackIds(t)) = SumFunctionOnSet(mbids[t], Mbids) + unnamed[t]
      BY DEF TrackTotals, TrackIds
    <3>2. QED BY <1>2, <3>1, MbidTotals, FingerprintTotals
  <2>2. QED BY <2>1 DEF TrackTotals, TrackIds
<1>3. QED BY <1>1, <1>2, StepTables
-----------------------------------------------------------------------------
(* The invariant *)

\* Nothing is submitted, counted or under way in the beginning.
LEMMA InitInv == Init => ImportInv
<1>1. SUFFICES ASSUME Init PROVE ImportInv
  OBVIOUS
<1>2. Typed
  BY <1>1, InitTyped
<1>3. \A w \in Workers : imp[w] = None /\ imp[w].pc = "idle" /\ imp[w].left = {} /\ ~ imp[w].new
  BY <1>1, NoneTyped DEF Init
<1>4. /\ pending = {} /\ sources = {} /\ fps = {} /\ count = [f \in FpIds |-> 0]
      /\ mbids = [t \in FpIds |-> [m \in Mbids |-> 0]] /\ unnamed = [t \in FpIds |-> 0]
      /\ indexed = {} /\ drift = [f \in FpIds |-> 0] /\ slipped = {} /\ faults = 0
  BY <1>1 DEF Init
<1>5. TypeOK
  BY <1>2, <1>3, <1>4 DEF TypeOK, Open, Busy
<1>6. HistorySound /\ RowsSound /\ SourcesSound /\ IndexSound /\ NoTwins
  BY <1>4 DEF HistorySound, RowsSound, SourcesSound, IndexSound, NoTwins
<1>7. LocksHeld
  BY <1>3 DEF LocksHeld, HoldsFp, Open, Busy
<1>8. CountsExplained
  <2>1. ASSUME NEW f \in FpIds PROVE Half(f, "ingest") = 0 /\ Half(f, "fingerprint") = 0
    <3>1. HalfSet(f, "ingest") = {} /\ HalfSet(f, "fingerprint") = {}
      BY <1>3 DEF HalfSet, HalfOf
    <3>2. QED BY <3>1, HalfIs, FS_EmptySet
  <2>2. ASSUME NEW f \in FpIds PROVE Cardinality({r \in sources : r.fp = f}) = 0
    <3>1. {r \in sources : r.fp = f} = {}
      BY <1>4
    <3>2. QED BY <3>1, FS_EmptySet
  <2>3. \A f \in FpIds : count[f] = 0 /\ drift[f] = 0
    BY <1>4
  <2>4. QED BY <2>1, <2>2, <2>3 DEF CountsExplained
<1>9. TrackTotals
  <2>1. ASSUME NEW t \in FpIds
        PROVE  SumFunctionOnSet(count, TrackIds(t)) =
                 SumFunctionOnSet(mbids[t], Mbids) + unnamed[t]
    <3>1. TrackIds(t) = {}
      BY <1>4 DEF TrackIds
    <3>2. \A m \in Mbids : mbids[t][m] = 0
      BY <1>4
    <3>3. SumFunctionOnSet(mbids[t], Mbids) = 0
      BY <3>2, MbidsFinite, SumZero
    <3>4. unnamed[t] = 0
      BY <1>4
    <3>5. QED BY <3>1, <3>3, <3>4, SumEmpty
  <2>2. QED BY <2>1 DEF TrackTotals, TrackIds
<1>10. ASSUME NEW w \in Workers
       PROVE  ImportSound(w) /\ WriteSound(w) /\ CandidatesSound(w) /\ Alone(w)
  BY <1>3 DEF ImportSound, WriteSound, CandidatesSound, Alone, Busy, Writes, Writing, Inserting, States
<1>11. QED BY <1>5, <1>6, <1>7, <1>8, <1>9, <1>10 DEF ImportInv

\* Steps of the importers keep it.
LEMMA ImporterInv ==
  ASSUME ImportInv, NEW w \in Workers, StepOf(w)
  PROVE  ImportInv'
<1>1. /\ TypeOK /\ Typed /\ HistorySound /\ RowsSound /\ SourcesSound /\ IndexSound /\ LocksHeld
      /\ CountsExplained /\ TrackTotals /\ NoTwins /\ ImportsSound
      /\ \A v \in Workers : ImportSound(v) /\ WriteSound(v) /\ CandidatesSound(v) /\ Alone(v)
  BY DEF ImportInv, ImportsSound, TypeOK
<1>2. TypeOK'
  BY <1>1, StepOwners
<1>3. HistorySound' /\ RowsSound' /\ SourcesSound' /\ IndexSound' /\ LocksHeld'
  BY <1>1, StepHistory, StepRowsSound, StepSourcesSound, StepIndexSound, StepLocks
<1>4. CountsExplained' /\ TrackTotals' /\ NoTwins'
  BY <1>1, StepCounts, StepTotals, StepNoTwins
<1>5. ASSUME NEW v \in Workers
      PROVE  ImportSound(v)' /\ WriteSound(v)' /\ CandidatesSound(v)' /\ Alone(v)'
  <2>1. ImportSound(w)' /\ FieldsSound(w)'
    BY <1>1, StepImportSound, StepFieldsSound, WriteSoundParts
  <2>2. v # w => ImportSound(v)' /\ FieldsSound(v)'
    BY <1>1, OthersImportSound, OthersFieldsSound, WriteSoundParts
  <2>3. ImportSound(v)' /\ FieldsSound(v)'
    <3>1. CASE v = w
      BY <2>1, <3>1 DEF ImportSound, FieldsSound, Open, Busy, Sub
    <3>2. CASE v # w
      BY <2>2, <3>2
    <3>3. QED BY <3>1, <3>2
  <2>4. RowSound(v)'
    BY <1>1, StepRowSound
  <2>5. WriteSound(v)'
    BY <2>3, <2>4 DEF WriteSound, FieldsSound, RowSound
  <2>6. CandidatesSound(v)' /\ Alone(v)'
    BY <1>1, StepCandidatesSound, StepAlone
  <2>7. QED BY <2>3, <2>5, <2>6
<1>6. QED BY <1>2, <1>3, <1>4, <1>5 DEF ImportInv

\* A new submission waits until an importer takes it.
LEMMA SubmitInv ==
  ASSUME ImportInv, NEW s \in Subs, Submit(s)
  PROVE  ImportInv'
<1> USE DEF ingest, fingerprint, index
<1>1. /\ pending' = pending \cup {s} /\ s \notin handled
      /\ UNCHANGED <<handled, sources, fps, count, mbids, unnamed, nextFp, indexed, maxDoc, imp, drift,
                     slipped, faults>>
  BY DEF Submit
<1>2. TypeOK'
  <2>1. Typed'
    BY <1>1 DEF ImportInv, TypeOK, Typed
  <2>2. QED BY <1>1, <2>1 DEF ImportInv, TypeOK, Open, Busy, Sub
<1>3. HistorySound' /\ RowsSound' /\ SourcesSound' /\ IndexSound'
  BY <1>1 DEF ImportInv, HistorySound, RowsSound, SourcesSound, IndexSound
<1>4. LocksHeld'
  BY <1>1 DEF ImportInv, LocksHeld, HoldsFp, Open, Busy, AudioAt, Sub
<1>5. CountsExplained'
  BY <1>1 DEF ImportInv, CountsExplained, Half, Sub
<1>6. TrackTotals' /\ NoTwins'
  BY <1>1 DEF ImportInv, TrackTotals, NoTwins
<1>7. ASSUME NEW w \in Workers
      PROVE  ImportSound(w)' /\ WriteSound(w)' /\ CandidatesSound(w)' /\ Alone(w)'
  <2>1. ImportSound(w) /\ WriteSound(w) /\ CandidatesSound(w) /\ Alone(w)
    BY DEF ImportInv
  <2>2. ImportSound(w)'
    BY <1>1, <2>1 DEF ImportSound, Open, Busy, Sub
  <2>3. WriteSound(w)'
    BY <1>1, <2>1 DEF WriteSound, Writes, Open, Busy, Sub
  <2>4. Alone(w)'
    BY <1>1, <2>1 DEF Alone, Inserting, Open, Busy, AudioAt, Sub
  <2>5. CandidatesSound(w)'
    BY <1>1, <2>1 DEF CandidatesSound, AudioAt, Sub
  <2>6. QED BY <2>2, <2>3, <2>4, <2>5
<1>8. QED BY <1>2, <1>3, <1>4, <1>5, <1>6, <1>7 DEF ImportInv

\* What the index knows changes only what searches see; nor does it matter that
\* nothing happens.
LEMMA IndexInv ==
  ASSUME ImportInv, UpdateIndex \/ UNCHANGED vars
  PROVE  ImportInv'
<1> USE DEF ingest, fingerprint, index
<1>1. UNCHANGED <<pending, handled, sources, fps, count, mbids, unnamed, nextFp, imp, drift,
                  slipped, faults>>
  BY DEF UpdateIndex, vars
<1>2. TypeOK'
  <2>1. indexed' \subseteq FpIds /\ maxDoc' \in 0 .. MaxFp
    <3>1. CASE UpdateIndex
      <4>1. PICK read \in SUBSET {f.id : f \in fps} : \E last \in read :
              indexed' = indexed \cup read /\ maxDoc' = last
        BY <3>1 DEF UpdateIndex
      <4>2. indexed \subseteq FpIds /\ read \subseteq FpIds
        BY <4>1 DEF ImportInv, TypeOK, Typed
      <4>3. indexed' \subseteq FpIds
        BY <4>1, <4>2
      <4>4. maxDoc' \in 1 .. MaxFp /\ MaxFp \in Nat
        BY <4>1, <4>2, ImportAssumption DEF FpIds
      <4>5. maxDoc' \in 0 .. MaxFp
        BY <4>4
      <4>6. QED BY <4>3, <4>5
    <3>2. CASE UNCHANGED vars
      BY <3>2 DEF vars, ImportInv, TypeOK, Typed
    <3>3. QED BY <3>1, <3>2
  <2>2. Typed'
    BY <1>1, <2>1 DEF ImportInv, TypeOK, Typed
  <2>3. QED BY <1>1, <2>2 DEF ImportInv, TypeOK, Open, Busy, Sub
<1>3. HistorySound' /\ RowsSound' /\ SourcesSound'
  BY <1>1 DEF ImportInv, HistorySound, RowsSound, SourcesSound
<1>4. /\ IndexSound' /\ maxDoc \in Nat /\ maxDoc' \in Nat /\ maxDoc <= maxDoc'
      /\ \A i \in indexed' : i \in indexed \/ i > maxDoc
  <2>1. CASE UpdateIndex
    <3>1. PICK read \in SUBSET {f.id : f \in fps} : \E last \in read :
            /\ \A i \in read : maxDoc < i /\ i <= last
            /\ indexed' = indexed \cup read
            /\ maxDoc' = last
      BY <2>1 DEF UpdateIndex
    <3>2. read \subseteq Nat /\ maxDoc \in Nat
      BY <3>1, ImportAssumption DEF ImportInv, TypeOK, Typed, FpIds
    <3>3. maxDoc' \in Nat /\ maxDoc < maxDoc' /\ \A i \in read : maxDoc < i
      BY <3>1, <3>2
    <3>4. IndexSound'
      BY <1>1, <3>1 DEF ImportInv, IndexSound
    <3>5. maxDoc <= maxDoc'
      BY <3>2, <3>3
    <3>6. \A i \in indexed' : i \in indexed \/ i > maxDoc
      BY <3>1, <3>2, <3>3
    <3>7. QED BY <3>2, <3>3, <3>4, <3>5, <3>6
  <2>2. CASE UNCHANGED vars
    <3>1. indexed' = indexed /\ maxDoc' = maxDoc /\ maxDoc \in Nat
      BY <2>2, ImportAssumption DEF vars, ImportInv, TypeOK, Typed
    <3>2. QED BY <1>1, <3>1 DEF ImportInv, IndexSound
  <2>3. QED BY <2>1, <2>2
<1>5. LocksHeld'
  BY <1>1 DEF ImportInv, LocksHeld, HoldsFp, Open, Busy, AudioAt, Sub
<1>6. CountsExplained'
  BY <1>1 DEF ImportInv, CountsExplained, Half, Sub
<1>7. TrackTotals' /\ NoTwins'
  BY <1>1 DEF ImportInv, TrackTotals, NoTwins
<1>8. ASSUME NEW w \in Workers
      PROVE  ImportSound(w)' /\ WriteSound(w)' /\ CandidatesSound(w)' /\ Alone(w)'
  <2>1. ImportSound(w) /\ WriteSound(w) /\ CandidatesSound(w) /\ Alone(w)
    BY DEF ImportInv
  <2>2. ImportSound(w)'
    BY <1>1, <2>1 DEF ImportSound, Open, Busy, Sub
  <2>3. WriteSound(w)'
    BY <1>1, <2>1 DEF WriteSound, Writes, Open, Busy, Sub
  <2>4. Alone(w)'
    BY <1>1, <2>1 DEF Alone, Inserting, Open, Busy, AudioAt, Sub
  <2>5. CandidatesSound(w)'
    <3>1. imp[w].max \in Nat /\ (imp[w].pc \in {"index", "table"} => imp[w].max <= maxDoc)
      BY <2>1, ImportAssumption DEF ImportInv, TypeOK, Typed, Import, CandidatesSound
    <3>2. imp[w].pc \in {"index", "table"} => imp[w].max <= maxDoc'
      BY <1>4, <3>1
    <3>3. ASSUME imp[w].pc = "table", NEW f \in fps, f.id \in indexed', f.id <= imp[w].max
          PROVE  f.id \in indexed
      <4>1. f.id \in Nat
        BY ImportAssumption DEF ImportInv, TypeOK, Typed, FpIds
      <4>2. ~ (f.id > maxDoc)
        BY <1>4, <3>1, <3>3, <4>1
      <4>3. QED BY <1>4, <3>3, <4>2
    <3>4. QED BY <1>1, <2>1, <3>2, <3>3 DEF CandidatesSound, AudioAt, Sub
  <2>6. QED BY <2>2, <2>3, <2>4, <2>5
<1>9. QED BY <1>2, <1>3, <1>4, <1>5, <1>6, <1>7, <1>8 DEF ImportInv

\* The inductive invariant of the imports.
THEOREM ImportInvariance == Spec => []ImportInv
<1>1. Init => ImportInv
  BY InitInv
<1>2. ImportInv /\ [Next]_vars => ImportInv'
  <2>1. SUFFICES ASSUME ImportInv, [Next]_vars PROVE ImportInv'
    OBVIOUS
  <2>2. CASE \E s \in Subs : Submit(s)
    BY <2>1, <2>2, SubmitInv
  <2>3. CASE \E w \in Workers : StepOf(w)
    BY <2>1, <2>3, ImporterInv
  <2>4. CASE UpdateIndex \/ UNCHANGED vars
    BY <2>1, <2>4, IndexInv
  <2>5. QED BY <2>1, <2>2, <2>3, <2>4 DEF Next, StepOf
<1>3. QED BY <1>1, <1>2, PTL DEF Spec

\* A submission waits or is handled and no two importers have the same one.
THEOREM ImportTypes == Spec => []TypeOK
<1>1. ImportInv => TypeOK
  BY DEF ImportInv
<1>2. QED BY <1>1, ImportInvariance, PTL

\* submission_count is the number of source rows, but for imports between their two
\* commits and those that were torn there.
THEOREM ImportCounts == Spec => []CountsExplained
<1>1. ImportInv => CountsExplained
  BY DEF ImportInv
<1>2. QED BY <1>1, ImportInvariance, PTL

\* The counts of a track's fingerprints and of its MBIDs add up to the same number.
THEOREM ImportTotals == Spec => []TrackTotals
<1>1. ImportInv => TrackTotals
  BY DEF ImportInv
<1>2. QED BY <1>1, ImportInvariance, PTL

\* Two fingerprints of the same audio only if one of the four ways past it was open.
THEOREM ImportNoTwins == Spec => []NoTwins
<1>1. ImportInv => NoTwins
  BY DEF ImportInv
<1>2. QED BY <1>1, ImportInvariance, PTL
=============================================================================
