-------------------------------- MODULE Feed --------------------------------
(***************************************************************************)
(* The changelog feed (acoustid/future/fpindex/feed.py) over the changelog *)
(* of module Changelog, and the fpindex nodes that replicate from it.      *)
(*                                                                         *)
(* Every database access of a handler is a transaction of its own, so a    *)
(* handler is as many actions as it runs statements, and importers and     *)
(* retention may act in between.  The node side (acoustid-index) is not in *)
(* the repository; it is modelled from what feed.py and wire.py say of it. *)
(***************************************************************************)
EXTENDS Changelog, FiniteSets

CONSTANTS
  Nodes,   \* fpindex nodes, each with at most one request in flight
  Limit,   \* "max" of a changelog read
  Chunk,   \* "chunk" of a bootstrap
  Silent   \* fingerprints whose extracted query is empty

ASSUME FeedAssumption ==
  /\ Limit \in Nat \ {0}
  /\ Chunk \in Nat \ {0}
  /\ Silent \subseteq Nat

VARIABLES
  mode,    \* what each node is doing, see Modes
  cursor,  \* the changelog position of each node
  index,   \* the fingerprints in each node's index
  lastId,  \* last_id of the bootstrap scan
  torn     \* history: nodes served a batch from below the retention floor

feedVars == <<mode, cursor, index, lastId, torn>>
allVars == <<vars, feedVars>>

(* "empty": has nothing, or was told 410 and has to start again;
   "scan": a bootstrap is streaming, its header carried cursor;
   "tail": follows the changelog, no request in flight;
   "read": the feed has passed the retention check of the node's request. *)
Modes == {"empty", "scan", "tail", "read"}

FeedInit ==
  /\ Init
  /\ mode = [n \in Nodes |-> "empty"]
  /\ cursor = [n \in Nodes |-> 0]
  /\ index = [n \in Nodes |-> {}]
  /\ lastId = [n \in Nodes |-> 0]
  /\ torn = {}

(* The rows of SELECT ... WHERE key > after ORDER BY key LIMIT limit. *)
FirstOf(batch, rows, limit, key(_)) ==
  /\ batch \subseteq rows
  /\ \A r \in batch, s \in rows \ batch : key(r) < key(s)
  /\ Cardinality(batch) = IF Cardinality(rows) < limit THEN Cardinality(rows) ELSE limit

RowId(r) == r.id
Id(f) == f

-----------------------------------------------------------------------------
(* GET /_changelog: handle_read_changelog *)

(* The comparison off by one: a node exactly at the floor has lost nothing. *)
BelowFloorInclusive(after) == \E d \in meta : after <= d

(* "after < last_deleted" of the one row of fpindex_meta, if there is one. *)
BelowFloor(after) == \E d \in meta : after < d

(* Exempting a node that asks from the start, as if 0 were always safe. *)
CheckExemptingZero(n) ==
  /\ mode[n] = "tail"
  /\ mode' = [mode EXCEPT ![n] = IF BelowFloor(cursor[n]) /\ cursor[n] > 0
                                 THEN "empty" ELSE "read"]
  /\ UNCHANGED <<vars, cursor, index, lastId, torn>>

(* First transaction: the watermark.  410 sends the node to bootstrap. *)
CheckFloor(n) ==
  /\ mode[n] = "tail"
  /\ mode' = [mode EXCEPT ![n] = IF BelowFloor(cursor[n]) THEN "empty" ELSE "read"]
  /\ UNCHANGED <<vars, cursor, index, lastId, torn>>

(* The batch without ORDER BY: any rows above the cursor. *)
ReadBatchUnordered(n) ==
  \E batch \in SUBSET {r \in changelog : r.id > cursor[n]} :
    /\ mode[n] = "read"
    /\ Cardinality(batch) <= Limit
    /\ \/ batch = {} /\ UNCHANGED <<cursor, index, torn>>
       \/ \E last \in batch :
            /\ \A r \in batch : r.id <= last.id
            /\ cursor' = [cursor EXCEPT ![n] = last.id]
            /\ index' = [index EXCEPT ![n] = index[n] \cup {r.fp : r \in batch}]
            /\ torn' = IF BelowFloor(cursor[n]) THEN torn \cup {n} ELSE torn
    /\ mode' = [mode EXCEPT ![n] = "tail"]
    /\ UNCHANGED <<vars, lastId>>

(* "after" ignored: the feed starts over while the node follows it. *)
ReadBatchFromStart(n) ==
  \E batch \in SUBSET changelog :
    /\ mode[n] = "read"
    /\ FirstOf(batch, changelog, Limit, RowId)
    /\ \/ batch = {} /\ UNCHANGED <<cursor, index, torn>>
       \/ \E last \in batch :
            /\ \A r \in batch : r.id <= last.id
            /\ cursor' = [cursor EXCEPT ![n] = last.id]
            /\ index' = [index EXCEPT ![n] = index[n] \cup {r.fp : r \in batch}]
            /\ torn' = IF BelowFloor(cursor[n]) THEN torn \cup {n} ELSE torn
    /\ mode' = [mode EXCEPT ![n] = "tail"]
    /\ UNCHANGED <<vars, lastId>>

(* Second transaction: the batch.  The node applies it and moves its cursor
   to the last entry.  Nothing checks the watermark again. *)
ReadBatch(n) ==
  \E batch \in SUBSET {r \in changelog : r.id > cursor[n]} :
    /\ mode[n] = "read"
    /\ FirstOf(batch, {r \in changelog : r.id > cursor[n]}, Limit, RowId)
    /\ \/ batch = {} /\ UNCHANGED <<cursor, index, torn>>
       \/ \E last \in batch :
            /\ \A r \in batch : r.id <= last.id
            /\ cursor' = [cursor EXCEPT ![n] = last.id]
            /\ index' = [index EXCEPT ![n] = index[n] \cup {r.fp : r \in batch}]
            /\ torn' = IF BelowFloor(cursor[n]) THEN torn \cup {n} ELSE torn
    /\ mode' = [mode EXCEPT ![n] = "tail"]
    /\ UNCHANGED <<vars, lastId>>

(* The request or its response is lost: the node asks again. *)
ReadLost(n) ==
  /\ mode[n] = "read"
  /\ mode' = [mode EXCEPT ![n] = "tail"]
  /\ UNCHANGED <<vars, cursor, index, lastId, torn>>

-----------------------------------------------------------------------------
(* GET /_bootstrap: handle_bootstrap *)

(* coalesce(max(id), 0) of the changelog. *)
CurrentPosition(p) ==
  \/ changelog = {} /\ p = 0
  \/ \E r \in changelog : p = r.id /\ \A s \in changelog : s.id <= r.id

(* The position is read before the first chunk and sent as the header. *)
BootstrapStart(n) ==
  /\ mode[n] = "empty"
  /\ \E p \in {0} \cup {r.id : r \in changelog} :
       /\ CurrentPosition(p)
       /\ cursor' = [cursor EXCEPT ![n] = p]
  /\ mode' = [mode EXCEPT ![n] = "scan"]
  /\ index' = [index EXCEPT ![n] = {}]
  /\ lastId' = [lastId EXCEPT ![n] = 0]
  /\ torn' = torn \ {n}
  /\ UNCHANGED vars

Unscanned(n) == {f \in fingerprints : f > lastId[n]}

(* One chunk, one transaction.  Fingerprints with an empty query are left
   out of the stream, and the scan goes on from the last id it saw. *)
BootstrapChunk(n) ==
  \E rows \in SUBSET Unscanned(n) : \E last \in rows :
    /\ mode[n] = "scan"
    /\ FirstOf(rows, Unscanned(n), Chunk, Id)
    /\ \A f \in rows : f <= last
    /\ index' = [index EXCEPT ![n] = index[n] \cup (rows \ Silent)]
    /\ lastId' = [lastId EXCEPT ![n] = last]
    /\ UNCHANGED <<vars, mode, cursor, torn>>

(* Resuming from where the changelog is by now, not from the header. *)
EndAtCurrentPosition(n) ==
  /\ mode[n] = "scan"
  /\ Unscanned(n) = {}
  /\ \E p \in {0} \cup {r.id : r \in changelog} :
       /\ CurrentPosition(p)
       /\ cursor' = [cursor EXCEPT ![n] = p]
  /\ mode' = [mode EXCEPT ![n] = "tail"]
  /\ lastId' = [lastId EXCEPT ![n] = 0]
  /\ UNCHANGED <<vars, index, torn>>

(* No rows are left: the empty array ends the stream, and the node resumes
   the feed from the header's position. *)
BootstrapEnd(n) ==
  /\ mode[n] = "scan"
  /\ Unscanned(n) = {}
  /\ mode' = [mode EXCEPT ![n] = "tail"]
  /\ lastId' = [lastId EXCEPT ![n] = 0]
  /\ UNCHANGED <<vars, cursor, index, torn>>

(* The stream dies without its terminator: the run starts over. *)
BootstrapAborted(n) ==
  /\ mode[n] = "scan"
  /\ mode' = [mode EXCEPT ![n] = "empty"]
  /\ cursor' = [cursor EXCEPT ![n] = 0]
  /\ index' = [index EXCEPT ![n] = {}]
  /\ lastId' = [lastId EXCEPT ![n] = 0]
  /\ UNCHANGED <<vars, torn>>

(* A node below the floor takes the checkpoint of a peer that replicates:
   its index together with its position. *)
PeerSnapshot(n, peer) ==
  /\ mode[n] = "empty"
  /\ mode[peer] \in {"tail", "read"}
  /\ mode' = [mode EXCEPT ![n] = "tail"]
  /\ cursor' = [cursor EXCEPT ![n] = cursor[peer]]
  /\ index' = [index EXCEPT ![n] = index[peer]]
  /\ lastId' = [lastId EXCEPT ![n] = 0]
  /\ torn' = IF peer \in torn THEN torn \cup {n} ELSE torn \ {n}
  /\ UNCHANGED vars

-----------------------------------------------------------------------------
NodeStep(n) ==
  \/ CheckFloor(n)
  \/ ReadBatch(n)
  \/ ReadLost(n)
  \/ BootstrapStart(n)
  \/ BootstrapChunk(n)
  \/ BootstrapEnd(n)
  \/ BootstrapAborted(n)
  \/ \E peer \in Nodes : PeerSnapshot(n, peer)

FeedNext ==
  \/ Next /\ UNCHANGED feedVars
  \/ \E n \in Nodes : NodeStep(n)

FeedSpec == FeedInit /\ [][FeedNext]_allVars

(* Transactions end (statement_timeout), the cron starts the job every hour
   and it runs on, and a node keeps asking.  A lock is granted, a partition
   created and a response delivered if it keeps being possible: failures
   are not for ever, and a bootstrap stream is in the end left alone. *)
Fairness ==
  /\ \A w \in Writers : /\ WF_vars(Commit(w) \/ Rollback(w))
                        /\ WF_vars(TriggerFails(w))
                        /\ SF_vars(Trigger(w))
  /\ \A j \in Jobs : /\ WF_vars(JobStep(j))
                     /\ \A k \in 0 .. CREATE_AHEAD :
                          SF_vars(job[j].offset = k /\ CreatePartition(j))
  /\ \A n \in Nodes : /\ WF_allVars(CheckFloor(n))
                      /\ SF_allVars(ReadBatch(n))
                      /\ WF_allVars(BootstrapStart(n))
                      /\ WF_allVars(BootstrapChunk(n))
                      /\ WF_allVars(BootstrapEnd(n))
                      /\ <>[][~BootstrapAborted(n)]_allVars

FairFeedSpec == FeedSpec /\ Fairness

-----------------------------------------------------------------------------
(* Properties *)

(* The variables of the feed and of the nodes stay in their sets. *)
FeedTypeOK ==
  /\ mode \in [Nodes -> Modes]
  /\ cursor \in [Nodes -> Nat]
  /\ index \in [Nodes -> SUBSET Nat]
  /\ lastId \in [Nodes -> Nat]
  /\ torn \subseteq Nodes

(* A committed fingerprint that node n lacks is still ahead of it: in the
   part of the table its bootstrap has not scanned, in the changelog above
   its cursor, or below a floor that will answer its next read with 410. *)
Ahead(n, f) ==
  \/ mode[n] = "scan" /\ f > lastId[n]
  \/ \E r \in changelog : r.fp = f /\ r.id > cursor[n]
  \/ BelowFloor(cursor[n])

Complete(n) ==
  mode[n] # "empty" => \A f \in fingerprints \ (index[n] \cup Silent) : Ahead(n, f)

(* No fingerprint is lost to a node in silence, whatever the order of
   commits, drops, scans and lost responses, unless retention overtook one
   of its reads between the watermark check and the batch. *)
NoSilentLoss == \A n \in Nodes \ torn : Complete(n)

(* "A consumer asking to resume from a position that has aged out must get
   410 Gone" (feed.py): no node is ever led past entries it has not seen. *)
AgedOutIsGone == \A n \in Nodes : Complete(n)

(* "replaying from `position` afterwards covers every gap" (feed.py): the
   position a bootstrap reads first is one that the feed will resume from. *)
BootstrapResumable ==
  [][\A n \in Nodes : BootstrapStart(n) => ~BelowFloor(cursor'[n])]_allVars

(* A position is given up only by starting over: while a node follows the
   feed its cursor moves forward, and no index entry is taken back. *)
CursorForward ==
  [][\A n \in Nodes : mode[n] \in {"tail", "read"} =>
       cursor[n] <= cursor'[n] /\ index[n] \subseteq index'[n]]_allVars

(* A cursor is a position the sequence has given out, and below the row of
   any transaction that is still open: what commits later is ahead of it. *)
CursorBelowOpen ==
  \A n \in Nodes :
    /\ cursor[n] < nextId
    /\ \A w \in Writers : tx[w].pc = "logged" => cursor[n] < tx[w].row.id

(* No node is ever past a row that can still become visible, and what it
   lacks is ahead of it: the inductive strengthening of NoSilentLoss. *)
FeedInv ==
  /\ ChangelogInv
  /\ FeedTypeOK
  /\ CursorBelowOpen
  /\ NoSilentLoss

(* The feed accepts the node's position and has nothing above it. *)
CaughtUp(n) == mode[n] = "read" /\ \A r \in changelog : r.id <= cursor[n]

(* As long as the log keeps an entry at or above the watermark, every node
   catches up with it, again and again, and is not sent to bootstrap for
   ever. *)
NodesCatchUp ==
  \A n \in Nodes :
    <>[](\E r \in changelog : \A d \in meta : d <= r.id) => []<>CaughtUp(n)

(* "the row stays queued and retries. Loud and self-healing" (tables.py): if
   the clock enters a month without a partition, one is made for it. *)
RunwayRestored == now \notin partitions ~> now \in partitions
=============================================================================
