------------------------------- MODULE MCTasks -------------------------------
(* The tasks of the workers: statistics, and MBIDs that MusicBrainz lost.  They
   share no state; scene says which one is explored.  One track that two MBIDs
   were submitted for; a third may replace them. *)
EXTENDS LookupStats, MbidMerge

CONSTANTS t1, A, B, C

VARIABLE scene

MCLinked == {<<t1, A>>, <<t1, B>>}

\* No track has an MBID: there is nothing to look up and nothing to merge.
MergeOff ==
  /\ known = {} /\ redirect = [m \in Mbids |-> None] /\ day = 0
  /\ rows = [r \in Rows |-> None] /\ sources = [r \in Rows |-> 0]
  /\ imported = [t \in Tracks |-> 0]
  /\ queue = [m \in Mbids |-> 0] /\ unknownSince = [m \in Mbids |-> None]
  /\ wk = [w \in Mergers |-> Idle] /\ imp = [i \in Importers |-> NoImport]
  /\ orphans = {} /\ adrift = {} /\ lastKnown = [m \in Mbids |-> 0] /\ returned = {}
  /\ events = 0

MCInit ==
  \/ scene = "stats" /\ Init /\ MergeOff
  \/ scene = "merge" /\ role = "master" /\ Init /\ MergeInit

MCNext ==
  /\ UNCHANGED scene
  /\ \/ scene = "stats" /\ Next /\ UNCHANGED merge_vars
     \/ scene = "merge" /\ MergeNext /\ UNCHANGED vars

\* In each scene the fairness of its own actions; those of MergeFairness are never
\* enabled in the other.
MCSpec ==
  /\ MCInit /\ [][MCNext]_<<scene, vars, merge_vars>>
  /\ MergeFairness
  /\ \A w \in Workers : WF_vars(scene = "stats" /\ WorkerStep(w))
=============================================================================
