# AcoustID server: a TLA+ verification project

Specifications of `acoustid-server`: its concurrent core, the way of a request
and the tasks of its workers. They are checked with TLC on small instances; the
safety of the changelog and its feed, of importing and of lookups, of the
statistics, the merging of MBIDs, the rate limiter, the index pool, the accounts
and the key caches is also proved with TLAPS for every value of the constants.
Every definition is translated from the code; `PROJECT.json` maps it to its lines.

## 1. The system

AcoustID identifies music by audio fingerprints. Clients look fingerprints up and
submit new ones. The server is a set of Python processes around four PostgreSQL
databases (`app`, `fingerprint`, `ingest`, `musicbrainz`), Redis, and a
fingerprint index (the legacy index server, and its successor fpindex).

| Component | State it keeps | Operations | Talks to |
|---|---|---|---|
| API v1/v2/v3 (`api/`, `future/api/`) | none of its own | lookup, submit, status, internal calls | all databases, index or fpstore, Redis |
| Submission import (`scripts/import_submissions.py`, `data/submission.py`) | `submission`, `pending_submission`, `submission_result`, `*_source` (ingest) | take, lock, search, write, commit | all three databases, index |
| Fingerprint search (`data/fingerprint.py`) | none | index search, table search, fpstore search | index pool, fingerprint DB |
| Tracks and MBIDs (`data/track.py`) | `track`, `track_mbid`, ... (fingerprint) | link, disable, merge | fingerprint and ingest DB |
| Changelog (`tables.py`, alembic migration) | `fpindex_changelog`, `fpindex_meta`, partitions | trigger on insert | importers, maintenance, feed |
| Partition maintenance (`scripts/fpindex_changelog.py`) | none between runs | create ahead, record watermark, drop | changelog |
| Feed (`future/fpindex/feed.py`, `wire.py`) | none | read changelog, bootstrap | fpindex nodes |
| fpindex nodes (acoustid-index, not here) | cursor, index | replicate, take a peer snapshot | feed |
| Legacy index updater (`update_fingerprint_index`) | `max_document_id` (index) | index new fingerprints | index, fingerprint DB |
| fpindex updater over NATS (`future/fpindex/updater/`) | replication slot, stream | load, publish, consume | fingerprint DB, NATS, fpindex |
| Statistics (`data/stats.py`, `scripts/update_*_stats.py`) | Redis hashes, `stats_lookups`, `stats_user_agents` | count, move to PostgreSQL | Redis, app DB, master's internal API |
| Index client and pool (`indexclient.py`) | idle connections | connect, release, recycle | index server |
| Rate limiter (`ratelimiter.py`) | Redis counters | limit | Redis |
| Tasks, cron, worker (`tasks.py`, `cron.py`, `worker.py`) | Redis lists | enqueue, dequeue, run | everything scheduled |
| Accounts and sessions (`web/views/user.py`, `data/account.py`) | `account*`, session cookies | sign in, make, sign out, new key | app DB, MusicBrainz, Google, OpenID |
| API key caches (`api/v2/__init__.py`, `data/application.py`) | in-process caches, `application` | look up, expire, switch off | app DB |
| MusicBrainz reads (`data/musicbrainz.py`) | none | metadata of recordings, redirects | MusicBrainz replica |
| Fingerprint forms (`acoustid_ext/fingerprint.pyx`, `fingerprint.py`) | none | decode, encode, query, hash | - |
| Metadata, backfills (`data/meta.py`, `scripts/backfill_*`) | `meta` | find or insert, rename | fingerprint DB |
| Web pages, export, configuration, process wrapper | single-row forms, none | - | - |

What is hard here, and hard to test:

* *Order.* A consumer reads "rows above my cursor"; transactions take ids in one
  order and commit in another.
* *Several databases, no common commit.* An import writes the ingest and the
  fingerprint database; a statistics run writes Redis and PostgreSQL. A process
  may die between any two of these writes.
* *Several transactions in one request.* The feed checks the watermark and reads
  the batch separately; a bootstrap is thousands of transactions.
* *Calendars.* Retention works on months, the consumer on ids, a maintenance run
  on the date it read when it started.
* *Shared connections, counters and caches.* A pool hands connections on, the
  limiter counts in Redis slots, keys are read from a replica that lags and cached
  in processes whose greenlets share the caches, a session is a cookie that
  overlapping requests overwrite.
* *Nothing stops two runs.* Importers, maintenance and statistics tasks overlap.

What makes each part correct: the changelog shows rows in id order and never
loses one without saying so; a node never lacks a fingerprint without being told
or still having it ahead; a submission is counted once and its audio becomes one
fingerprint; a lookup is counted once; merging MBIDs loses no submission; an
answer belongs to the request, the account and the key it is for. The `hazards`
of `PROJECT.json` list where these can go wrong, line by line.

## 2. Modules

`CommitLog` is the abstract specification, `Changelog` implements it, `Feed`
extends `Changelog` with the feed and the nodes. `ApiKeys` extends `Accounts`.
The others stand alone. The proofs about module `M` are in `MProofs`, with three
that belong together: `FeedProofs` is about `Changelog` too, `ApiKeysProofs` about
`Accounts`, `LookupsProofs` about `LookupStats`. `Sums` has the lemmas on sums that
the proofs about counts share. The inductive invariants are
definitions of the modules they are about, at their end. The `MC` modules instantiate them for TLC; `MCTasks` and `MCRequests`
put components that share no state into one run, where the variable `scene`
says which one moves: the runs explore them side by side, not interleaved.

### CommitLog - what a consumer relies on
Visible `entries` and a `floor`. An appended entry is above every entry and the
floor; the floor rises to an entry that is there; entries disappear only at or
below the floor.

### Changelog - trigger, partitions, retention
Each writer has a transaction `tx`: `InsertFingerprint` takes the fingerprint id
and enters the trigger, `Trigger` gets the advisory lock and then the changelog
id and month, `TriggerFails` is the INSERT without a partition, `Commit` and
`Rollback` end it. Each job walks through `run_manage_fpindex_changelog`, one
action per statement, since the connection is in autocommit mode: `JobStart`
reads the date, `CreatePartition`/`CreateFails` per month ahead,
`ListPartitions`, then per month `RecordLastDeleted`/`RecordFails` and
`DropPartition`/`DropFails`. `JobCrash` may come at any point, and jobs overlap.
Creating or dropping a partition needs ACCESS EXCLUSIVE on the parent, which a
transaction that has inserted a changelog row denies (`LockHeld`).

A month is its index, as in `fpindex_changelog_add_months`. `Tick` carries the
one assumption about time: a transaction holding a changelog row does not live
to see that row's month leave the retention window (the importer bounds every
statement to 60 s; `RETENTION_MONTHS` is 2). Without it a row could
commit into a partition after its watermark was recorded and before it is
dropped, and be lost unrecorded.

### Feed - changelog reads, bootstrap, nodes
A request is two actions, `CheckFloor` and `ReadBatch`, because the handler runs
two transactions. A bootstrap is `BootstrapStart` (position), one
`BootstrapChunk` per transaction, and `BootstrapEnd`. Requests and streams get
lost (`ReadLost`, `BootstrapAborted`). `PeerSnapshot` and the node's cursor are
external. `torn` is a history variable: the nodes for which retention overtook a
read between its two transactions (see finding 1).

### SubmissionImport - queue, search, two commits
`imp[w]` is the pass of importer `w`: take a row (`Pick`), try the two advisory
locks (`LockFp`; `LockMbid` too, if the submission has an MBID; or `Related`, which
leaves the row queued), skip or search (`ReadMax`, `SearchIndex`, `SearchTable`,
each with what is visible then), choose the best match whose track accepts the
audio (`ChooseTrack`), take an id and wait for the trigger's lock (`Insert`,
`Inserted`) or wait for the row (`Counted`), link the MBID (`Linked`), and commit
the databases in either order (`CommitIngest`, `CommitFingerprint`). Uncommitted
writes stay in `imp[w]`. `Fail` rolls everything back; `TornCommit` is the failure
between the two commits. `UpdateIndex` is the legacy updater, which indexes what
its snapshot shows above `max_document_id`.

A submission has an MBID, the null UUID, which is locked but not linked, or none
and other metadata only: its import raises the count of the fingerprint and no
count of an MBID (`unnamed` counts these). The index search is cut as in
`_search_index`: relative to the best candidate and in number. Scores, lengths and
terms in common are constants and the thresholds are the code's, in percent.
Left out: the app database (sources and formats), the disabled `merge_tracks`
branch (`and False`), two-phase commit (off by default), and a pending row whose
submission is handled already, which no code path produces. puid, meta and
foreignid use the `_insert_gid` that the MBID goes through. The statements of
`can_add_fp_to_track` for the candidates of one search are one action. History
variables: `drift` (imports torn between the commits) and `slipped` (audio whose
own fingerprint a search could not see or use).

### LookupStats - Redis to PostgreSQL
`Count` is an API process; a worker does `Fetch` (HGETALL), then per key
`DropZero`, or the upsert, `Decrement` and `CommitKey` on a master, or the call
of the master's internal API on a slave. `DiscardUnknown` is the foreign key
case. `Crash`, `RemoteFails` (with and without the commit on the master) and
overlapping runs are bounded by constants. `drift` accounts for what is lost or
counted twice.

### MbidMerge - following MusicBrainz merges
A `Lookup` that finds an MBID without metadata queues a task; `Dequeue` pops it,
and a worker runs it step by step: `TaskLocked`, `MergeMissingMbid` reads the
redirect (for an MBID that is known again there is nothing to change, but both
databases are prepared and committed all the same), `TargetLocked` and `LockRows` take the locks, `MergeMbids` (or
`UnknownMbid`, `DisableMbid`) changes rows, `Prepare`, `CommitFingerprint` and
`CommitIngest` are the two-phase commit. `TaskFails` and `WorkerDies` may come
anywhere; a prepared transaction of a dead worker stays with its locks
(`orphans`). `ImportStart` ... `ImportCommitIngest` are the importer's
`_insert_gid`, `ToggleTrackMbid` is the web page. `adrift` accounts for tracks
whose two databases were torn apart, `returned` for MBIDs that came back.

### RateLimiter - slots in Redis
`Arrive`, then for each bucket of `RouteOf` the commands `Incr`, `Get` and
`Refuse` or `Pass`; a slot may end between them (`NextSlot`), a request may die
(`Die`). Slots are named by age, so the state is finite.

### Lookups - entries, search, answer
`ParseEntry` per numbered entry, then `Insert`/`CommitRows` of a submission, or
per query of a lookup `ReadTrack`/`ResolveTrack` or the search: `FpstoreAnswers`,
`FpstoreTimesOut`, or `ReadMaxId`, `SearchIndex`, `SearchDatabase`,
`StatementTimeout`; `NoSuchTrack` answers an id that no track has with nothing.
Meanwhile fingerprints are committed in any order of ids (`Import`), the updater
indexes those above `max_document_id` that its snapshot shows, so that some are
passed over for ever (`IndexUpdate`), and tracks are merged. The importer's search
(`fast=False`) is the request of kind "import".

### IndexPool - clients of the legacy index
A user checks a client out (`ConnectIdle` with its ping, `ConnectNew`,
`Recycle`), sends a `Command`, `Read`s the answer or gives up (`GiveUp` closes
the socket), and gives the client back (`WrapperClose`, `Release`). A client that is
closed with a transaction open sends a rollback, and its user goes on at once: the
code waits for an answer that it does not look at, so this adds orders of steps
and leaves none out. The server is
external. Commands and inserts carry the user's name, so that an answer or a
document that reaches the wrong user can be told.

### Metadata - the tree of an answer
`QueryRows`, `LoadReleases`, `LoadGroups` and `Build` are the queries of
`lookup_metadata`, each with its own snapshot, between which replication merges
(`Merge`); `Answer` groups rows into nested elements as `inject_recordings`,
`inject_releases`, `inject_release_groups` and `inject_m2` do, with and without
"compress" and user metadata.

### Fingerprints - forms and derived data
The client's string, signed and unsigned words, the text of a PostgreSQL array
(parsed digit by digit as in `decode_postgres_array`), the XOR format with its
header; then `extract_query` and the windows of `compute_shingled_simhashes`.
Words have 3 bits instead of 32, digits base 2 instead of 10.

### Accounts, ApiKeys - sign-in, sessions, keys
A request works on the copy of the cookie it was sent with: `GenerateLoginToken`,
`LoginCallback`/`OpenIdCallback`, `FindUser`, `InsertAccount` (waits for, or
fails on, the unique index), `Commit` or `LoginFails`, and `Answer`, which
replaces the cookie.

`ApiKeys` adds applications and, per server process, the two caches, which the
greenlets of the process (`Handlers`, gevent workers of `wsgi_utils.py`) share: a
request has a `KeyHit`, or a `KeyQuery` and later a `KeyStore`, and others go on
between the two. The query goes to the ':ro' engine: `behind` holds the earlier
states of the tables that the replica has not left yet, a commit appends one
(`Committed`) and `Replay` drops the oldest. Without a ':ro' engine nothing is ever
behind, which is one of the behaviours. `Tick` is time. Nothing in the code limits
how long a request takes (gunicorn's `--timeout` is a heartbeat of the process under
gevent) or how far a replica lags: `MaxRequest` and `MaxLag` bound the exploration
only, `longest` and `furthest` note what the run has shown so far, and the property
is about these. Random keys and tokens are consecutive numbers.

## 3. Runs

| Run | Shows | Bounds |
|---|---|---|
| `changelog` | commit order, month order, the retention window, recorded loss, a monotone watermark, refinement of `CommitLog`, and that the inductive invariant holds | 2 importers, 2 jobs, 2 fingerprints, 4 months, 1 month kept, 1 ahead |
| `feed` | `NoSilentLoss`, its strengthening `FeedInv`, `CursorForward` | 2 importers, 1 job, 2 nodes, 3 fingerprints (one older than the trigger, one silent), 3 months, one row per batch and chunk |
| `feed_live` | `NodesCatchUp`, `RunwayRestored` | 1 importer, 1 job, 1 node, 3 months |
| `feed_gap` | finding 1 (violation) | 1 importer, 1 job, 1 node |
| `feed_boot` | finding 2 (violation) | same |
| `import` | `CountsExplained`, `TrackTotals`, `NoTwins` | 2 importers, 4 submissions (one with other metadata only, one with the null UUID), 3 audios, 4 fingerprint ids, 1 candidate of the index, 1 fault |
| `import_live` | `EventuallyHandled` | 2 importers, 3 submissions (one useless), 2 faults |
| `import_related` | finding 4 (violation) | 2 importers, the same audio twice, no fault |
| `tasks` | statistics: `CountedOnce`, `Drained`; merges: `CountsConserved`, `SourcesExplainCounts`, `DisabledAfterGrace`, `EventuallyMerged` | 2 keys (one of an unknown application), 2 workers, 2 lookups per key, 1 fault, 1 overlap, master and slave; 2 workers, 1 importer, 1 track, 3 MBIDs, 2 events |
| `stats_delete` | finding 3 (violation) | 1 worker, no fault, no overlap |
| `accounts` | `SessionsBelong`, `OneAccountEach`, `TokensSpent`, `KeysHonoured` | 2 requests, 2 browsers, 1 MusicBrainz user (two spellings), 1 Google user with an old OpenID account; 1 API server with 2 greenlets, 3 applications, 4 keys, TTL, longest request and lag of 1; 5 events |
| `requests` | limiter: `CountersExplained`, `LimitKept`; pool: `PoolSound`, `AnswersMatch`, `OwnCommits`; lookups: `GoodEntriesServed`, `NoneBetween`; metadata: `MetadataComplete`, `CompressLossless`; fingerprints: `FingerprintKept`, `DerivedSound` | 2 requests, 2 slots, lag 1; 2 users, 3 clients, pool of 1, 2 faults; 3 fingerprints, 3 tracks and an unknown one, 8 requests; 2 results, 3 MusicBrainz tracks, 10 values of `meta`, 1 merge; up to 4 words of 3 bits |

Why the bounds suffice: every property relates at most two rows, two
transactions, two runs or two nodes, and the instances have two of each. Three
or four months let a month be current, inside the window and outside it in one
behaviour. A batch of one row is the harshest case for a cursor. In `import`,
audio "a" comes twice, "b" is similar to "a" and to "c", and "c" is too long to
share a track with "a": the smallest set in which every branch of the track
choice is taken. Counts are conserved or not in a merge of one MBID into
another that itself is merged: three MBIDs. A stale session, token or key takes
two requests, and two greenlets for a cache that one fills while the other uses it;
a second API server would only have caches of its own. The web site and the API
meet in the table of accounts only, so `MCApiKeys` explores them as two scenes: on
the side of the API accounts are made and change keys, but one sign-in is enough.
A query
over the limit is reached with limits of 1 and 2, a lagging request with a lag of
one slot. With a candidate limit of 1 and three fingerprints both cuts of the
index search happen; in `import` too, where with one candidate the twin is cut off
behind a similar fingerprint with as many terms. 3-bit words have a most negative value, a sign and a
silence; numbers then have up to three digits.

`tasks`, `accounts` and `requests` switch the deadlock check off: requests end,
bounded events run out. So do `import`, `import_live` and `import_related`: with the
queue empty the importer has nothing to do but sleep. In the other modules some
process can always move, and deadlock is checked.

Fairness. `feed_live`: transactions end (statement_timeout), the cron starts the
job every hour and a run goes on, nodes keep asking. A lock, a partition or a
response that is possible again and again is had in the end (strong fairness):
lock_timeout and a lost connection are retried by the code for ever. A bootstrap
is aborted finitely often. `import_live`: an importer that can take a step takes
one (the loop of `run_import_on_master` never ends); faults are bounded.
`tasks`, statistics: the same for workers, as the task is queued every minute;
merges: clients keep looking tracks up, a worker goes on with its task, and a
task that is queued again and again is popped in the end (strong fairness: the
workers draw from all lists whenever they are free).

## 4. Proofs

`FeedProofs` proves, for any sets of importers, jobs and
nodes and any retention, runway, batch and chunk size, from
`BoundsAssumption` and `FeedAssumption` (the numeric constants are naturals, a
batch and a chunk are not empty) and from `Tick`'s guard:

* `Invariance`: `ChangelogInv` is inductive. `CommitOrder` alone is not: that a
  row which commits is above everything visible needs that at most one open
  transaction has a row, that its id is the newest given out and its month the
  latest (`OpenRowIsNewest`); that the watermark does not pass it needs the
  calendar of every job (`CalendarInv`), and that a drop is covered needs the
  state between the two statements of `drop_partitions` (`DropCovered`).
* `TypeCorrect`, `MonthsAgree`, `WindowIsKept` follow from it; `CommitsInOrder`,
  `LossIsRecorded`, `WatermarkIsMonotone` are action properties under it.
* `Refinement`: every step of `Changelog` is a step of `CommitLog` or leaves it
  unchanged.
* `FeedInvariance`: `FeedInv` adds that every cursor is below the row of any
  open transaction (`CursorBelowOpen`), so what commits later is ahead of it.
  `NothingLostSilently` and `CursorsMoveForward` follow.

`Sums` proves what a sum of integers over a finite set does when an index is
added (`SumWith`), when values change (`SumChanged`) or move on by one
(`SumShifted`), and that a sum of ones is a cardinality (`SumOnes`).
`SumFunctionOnSet` is a recursive function over subsets, and the library's
induction theorems cannot be instantiated; but a property that fails has a
smallest set it fails for, since strict inclusion of finite sets is well-founded.

`RateLimiterProofs`, for any finite set of requests and any buckets, limits and
slots, from `LimiterAssumption`:

* `CountersAreExplained`: `LimiterInv` adds that a request under way has a bucket
  left and a slot that is still kept (`CallersSound`): a step then changes one
  counter by one and the set in flight by one element (`Settles`), and the end
  of a slot shifts both alike.
* `LimitsAreKept`: that a bucket is within its limit now says nothing about calls
  that have read already and will pass later. `RoomKept` counts them in: what was
  let through in this slot, the calls that may still pass and what the older slots
  let through on time are within the limit together. A call takes its place when
  it adds its one, before it reads, so a later call sees it.

`SubmissionImportProofs`, for any tracks, MBIDs and audio and any finite sets of
submissions and workers, from `ImportAssumption` (audio is wholly similar to itself,
similarity is symmetric). `ImportInv` is inductive (`ImportInvariance`) and all four
properties are parts of it:

* `ImportTypes`: `TypeOK`, with what a worker does not hold before it has found it.
* `ImportCounts`, `ImportTotals`: the open writes of the workers are in neither
  database or in one of them. `WriteSound` says that a worker about to insert has an
  id that is in no table and with no other worker, and one about to count has found
  the row it counts on; so each commit takes one worker's writes out of the sum of
  the open ones and puts them into one row. `RowsSound` and `SourcesSound` keep one
  row for an id and one source for a submission. For the totals of a track the
  fingerprint grows in one commit by as much as its MBIDs and the imports that name
  none do together.
* `ImportNoTwins`: `LocksHeld` gives an audio to one importer at a time. The lock may
  be gone before the fingerprint is committed, so `Alone` says what then remains:
  nobody inserts the same audio and no fingerprint has it, unless it slipped past
  the search (`slipped`). `CandidatesSound` carries through the two halves of the
  search what was indexed when the first began.

`LookupsProofs`, for any requests, fingerprints, tracks and limits, from
`LookupsAssumption` (finitely many fingerprints with ids from 1, scores and terms
are naturals, the importer asks for one fingerprint and without an fpstore, as
`data/submission.py` does):

* What the code sorts is in the model `InOrder(S, R)`: the n-th is the element
  with n - 1 elements before it. `OrderSound` proves once that this lists each
  element once, in order; that a finite set of numbers has a least and a greatest
  follows from it. No induction is needed: the number of elements before one is an
  injection into as many numbers, hence onto.
* `EntriesAreServed`: `QueriesSound` says that the queries are the good entries up
  to where the parser is; `RowsSound` counts the rows of the entries that are done.
  A track that is resolved in two queries stands for the one asked for because a
  merge moves all tracks with the same representative together (`WorldSound`,
  `StepsSound`); one that does not exist is answered with nothing (`Stands`).
* `NothingBetween`: `SearchSound` follows a fingerprint that was there when the
  importer began through the search: beyond the id that was read, among the
  candidates, or kept out by the limits of the index (`Missed`); what was indexed
  between the two reads of the index is among its answers. Nothing is assumed of
  the order in which ids commit; what the index had passed over before the search
  began (`before` leaves it out) is lost to the importer, as to the code.

About `LookupStats`, for any keys, lookups, faults and any finite set of workers,
from `StatsAssumption`, the same module proves `StatsTyped`, and `LookupsCountedOnce` by `StatsInv`. An
uncommitted upsert is in two places until the decrement (`Twice`, a sum over the
workers); by the lock on the row (`RowsHeld`) the open transaction of a key is one
worker's, so its commit adds what that worker takes out of Redis, and no more.

`MbidMergeProofs`, for any tracks and any finite sets of MBIDs, workers and
importers, from `MergeAssumption`. `MergeInv` is inductive: what a task has read
of the rows it locked is still true (`TaskSound`), nobody else writes these rows
(`RowsExclusive`), redirected MBIDs are gone (`RedirectsSound`).

* `CountsAreConserved`: the step that matters is `MergeMbids`, where the counts
  of the redirected MBIDs become the target's.
* `SourcesAreExplained`: between the two commits of a merge the databases
  disagree by what the task is about to move (`OnTheWay`, summed over the
  workers in `Balanced`), and a prepared task moves as many sources as counts
  (`MovesItsCounts`).
* `DisabledOnlyAfterGrace`: the key in Redis is as old as the absence of its MBID,
  and what a task concluded from it still holds (`GraceKept`).

`IndexPoolProofs`, for any clients, limit and faults and any finite set of users,
from `PoolAssumption`: `ClientsAreNotShared`, `AnswersReachTheirUser` and
`CommitsAreOwn`. `PoolInv` says of a connection that something is under way on it
only while its user waits (`ClientSound`), and of a user that it has asked once
and was answered at most once (`UserSound`). A step touches one connection
(`Elsewhere` in the proofs), so it is enough to look at that one and its user.

`ApiKeysProofs`, for any requests, browsers, servers and times, and any
sets of people, from `AccountsAssumption` (identities of different kinds differ, an
absent value is none of them) and `TimeAssumption` (a TTL is positive):

* `SessionsAreOwn`: a session names an account before the account exists. By
  `IdsSound` the id is known to one request only until the answer is sent, because
  ids come from a sequence, which no rollback takes back.
* `OneAccountForEach`: `OneInv` adds that an identity that has an account leads to
  it (`Leads`, `OwnedOnce`), and that a new account under way is for an identity
  without one, and the only one for it (`MakersSound`): two may wait on the unique
  index, or for Google be found out at the commit.
* `TokensAreSpent`: `TokensInv` follows a token from the request that made it
  (`NewTokens`) into one browser's cookie (`CookieTokens`) and into the requests
  sent with it (`OwnTokens`).
* `KeysAreHonoured`: `KeysInv` gives every answer an age. A state that the replica
  still shows was the tables' own at most `furthest` ago (`ReplicaSound`); a query's
  answer was true of it (`IsAnswer`), an entry is stored at most `longest` later and
  lives `TTL`, and a request goes on for `longest` (`Known`). `Tick` makes everything
  one older, every other step changes only what is true now. The window is the sum:
  `TTL + furthest + 2 * longest`, for those who are honoured and for those who are
  refused, applications and accounts alike.

Every inductive invariant was checked by TLC on the module's instance before it
was proved.

Only model-checked:

* liveness under fairness (`NodesCatchUp`, `RunwayRestored`, `Drained`,
  `EventuallyMerged`, `EventuallyHandled`), which the prover does not support;
* `MetadataComplete` and `CompressLossless`: what they say of a tree of any depth
  is stated with RECURSIVE operators, behind which the prover has no arithmetic and
  no sets;
* `FingerprintKept` and `DerivedSound`: that a text or a list of differences reads
  back as what was written is an induction over its length, with a fold on one side
  and bit operations on the other; the library's induction theorems cannot be
  instantiated and `Bitwise` is out of reach.

Every other invariant and action property of a passing run has a theorem.

## 5. Findings

1. `feed_gap` - a changelog read passes the 410 check, retention records and
   drops a partition, the batch is read: the node gets 200 and skips entries.
2. `feed_boot` - after a quiet retention window a bootstrap hands out position 0,
   below the watermark; the feed answers the node's first read with 410.
3. `stats_delete` - HDEL of a counter that was 0 at HGETALL discards lookups
   counted since.
4. `import_related` - the import locks are released by the ingest commit, which
   may come before the fingerprint commit; a related submission then imports the
   same audio again.

`import` shows what follows from the order of commits and checks: `NoTwins`
holds but for four ways past an existing fingerprint, and each is reachable:
the order of finding 4, a candidate that the limits of the index search cut off, the legacy updater's skipped ids (which the comment above
`fpindex_changelog` calls "the bug in the old index updater"), and a track that
refuses its own audio after two importers passed `can_add_fp_to_track` together.

### Observations without a run

Behaviour met while modelling that no text of the repository contradicts, or
that is outside the modelled state.

* MbidMerge: nothing finishes a prepared transaction of a dead worker, and its
  locks stop every later merge of its MBIDs; a merge that comes between an
  import's two commits leaves source rows with the old MBID; a moderator may
  enable a merged MBID again, and if it is redirected elsewhere then, its task
  raises `ValueError` for ever (`Stuck`); the key `unknown_mbid:` is never
  removed. Each is an exception the properties name.
* Accounts and keys: `CheckApplicationHandler` passes an `AppDB` where
  `check_app_api_key` calls `get_app_db`, so it fails unless the key is cached;
  `check_demo_client_api_key` accepts the keys of today and the next six days; the
  web site compares MusicBrainz names with case and the API without, which can
  make two accounts; an overlapping request can bring a spent login token back
  with its older cookie.
* SubmissionImport: an import with the null UUID takes the lock of that UUID, so
  unrelated submissions that carry it wait for each other.
* IndexPool: `scripts/update_index.py` passes the pool where
  `update_fingerprint_index` calls `get_attribute`.
* Lookups: without an fpstore a fast search, hence every lookup, connects to the
  index, asks nothing and is empty.
* Metadata: under "compress" only the last release group's artists are compared
  with the recording's; `m2` fails on a track without a length; a MusicBrainz merge
  between the queries ends the request with an internal error.
* Fingerprints: the Python `extract_query` appends unsigned terms to a signed
  array, which overflows when the top bit is set; the parser relies
  on wrapping for the most negative word.

## 6. Plan

Done: CommitLog, Changelog, Feed, SubmissionImport, Lookups, LookupStats, MbidMerge,
RateLimiter, IndexPool, Accounts and ApiKeys with their proofs; Metadata and
Fingerprints, model-checked.

What would be next:

1. `SubmissionImport`: the app database as third participant of the commit, and
   `lookup_submission_status`.
2. `Metadata`: the levels of the tree as one definition each in place of the
   RECURSIVE ones, so that `MetadataComplete` can be proved.
3. `Fingerprints`: the differences as a relation between neighbours instead of a
   fold, so that the binary format at least can be proved to read back.

## 7. Not modelled

* fpindex updater over NATS (`future/fpindex/updater/`): the publisher calls
  `encode_legacy_fingerprint` with the keyword `algorithm`, which the extension
  does not have; as coded no change is ever published, and a model of what was
  meant would not be a model of the code.
* API v3, track lists, submission status, data export, daily statistics:
  read-only, or one transaction of independent counts.
* `find_or_insert_meta` and the backfills: idempotent writes keyed by a hash.
* simhash, libchromaprint, zstd: arithmetic on long words, and libraries.
* Configuration, pages and templates, process wrapper: input and output.

`PROJECT.json` has the reason per component.
