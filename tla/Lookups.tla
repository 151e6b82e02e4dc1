------------------------------- MODULE Lookups -------------------------------
(***************************************************************************)
(* Lookups and submissions (LookupHandler and SubmitHandler of             *)
(* api/v2/__init__.py) and the search for a fingerprint                    *)
(* (FingerprintSearcher of data/fingerprint.py, fpstore.py).  A request    *)
(* carries numbered entries; bad ones are passed over as long as a good    *)
(* one is left.  Each fingerprint of a lookup is searched for in the       *)
(* fpstore; the importer, which searches with fast = FALSE, uses the index *)
(* and the database.  Meanwhile fingerprints are imported and indexed and  *)
(* tracks are merged.  (For a lookup the tables are those of the read-only *)
(* connection: all of this arrives there later, and in the same order.)    *)
(***************************************************************************)
EXTENDS Integers, Sequences, FiniteSetsExt

CONSTANTS
  Fps,            \* ids of fingerprints, 1 .. n
  Tracks,         \* ids of tracks; others may be asked for
  Catalogs,       \* what fingerprints look like to the searched one: catalog below
  Requests,       \* requests that may be made: records as request below
  MinScore,       \* TRACK_GROUP_MERGE_THRESHOLD
  MaxCandidates,  \* of the index: 10 and 20 in the code
  MinPct,         \* of the best candidate's score: 40 and 10
  MaxResults,     \* MAX_RESULTS_PER_FINGERPRINT_QUERY
  MaxQueries,     \* of each kind and request: 20 and 100
  MaxMerges       \* bound: merges of tracks

\* Scores and terms are counts; the importer asks for one fingerprint, and not
\* the fpstore.
ASSUME LookupsAssumption ==
  /\ IsFiniteSet(Fps) /\ Fps = 1 .. Cardinality(Fps) /\ Tracks # {}
  /\ \A c \in Catalogs : c.terms \in [Fps -> Nat] /\ c.score \in [Fps -> Nat]
  /\ \A r \in Requests :
       /\ r.kind \in {"lookup", "submit", "import"}
       /\ IsFiniteSet(DOMAIN r.entries) /\ DOMAIN r.entries \subseteq Int
       /\ \A i \in DOMAIN r.entries :
            r.entries[i].kind = "submission" => r.entries[i].mbids \in Nat
       /\ r.kind = "import" =>
            /\ ~ r.fpstore
            /\ \E i \in DOMAIN r.entries : DOMAIN r.entries = {i} /\ r.entries[i].kind = "fp"
  /\ MaxCandidates \in Nat /\ MinPct \in Nat /\ MaxResults \in Nat /\ MaxQueries \in Nat

VARIABLES
  catalog,  \* [near, terms, score]: within the length, terms in common, similarity
  track,    \* of each fingerprint
  new_id,   \* of each track: where it was merged into, or itself
  stored,   \* committed fingerprints; ids are taken before a commit
  indexed,  \* those that the index has
  maxDoc,   \* its attribute max_document_id
  request,  \* [kind, batch, fpstore, entries]; the importer's has one entry
  todo,     \* numbers of the entries that are not parsed yet
  queries,  \* those that were parsed, in order
  search,   \* the search under way
  found,    \* matches of each query so far
  rows,     \* submissions inserted: numbers of their entries
  counted,  \* lookups counted as hits and misses
  pc,
  merges,   \* history: merges of tracks
  before    \* history: fingerprints that were there when the importer began to
            \* search, and that the index had not passed over

world == <<catalog, track, new_id, stored, indexed, maxDoc, merges>>
lvars == <<world, request, todo, queries, search, found, rows, counted, pc, before>>

NoSearch == [max |-> 0, ids |-> {}, to |-> 0]

\* What a request does not read is left at one value.
LookupsInit ==
  /\ request \in Requests
  /\ catalog \in {c \in Catalogs : request.kind = "import" \/ \A f \in Fps : c.terms[f] = 0}
  /\ track \in [Fps -> IF request.kind = "lookup" THEN Tracks ELSE {CHOOSE t \in Tracks : TRUE}]
  /\ new_id = [t \in Tracks |-> t]
  /\ stored \in SUBSET Fps
  /\ indexed \in IF request.kind = "import" THEN SUBSET stored ELSE {{}}
  /\ maxDoc = Max(indexed \union {0})
  /\ todo = DOMAIN request.entries
  /\ queries = <<>> /\ search = NoSearch /\ found = <<>> /\ rows = <<>>
  /\ counted = [hits |-> 0, misses |-> 0]
  /\ pc = "parse" /\ merges = 0 /\ before = {}

-----------------------------------------------------------------------------
(* Parameters: iter_args_suffixes gives the numbers in order, -1 for none *)

\* A track id is a UUID; a fingerprint comes with a duration and decodes.
ParseQuery(entry) == entry.kind \in {"track", "fp"}

\* Duration and fingerprint as above, and every id and number well formed.
ParseSubmission(entry) == entry.kind = "submission"

IsValid(entry) == IF request.kind = "submit" THEN ParseSubmission(entry) ELSE ParseQuery(entry)

\* The error of the last entry is raised whether or not another one was good.
ParseEntryLastCounts ==
  LET i == Min(todo) IN
  /\ pc = "parse" /\ todo # {}
  /\ todo' = todo \ {i}
  /\ queries' = IF IsValid(request.entries[i]) THEN Append(queries, i) ELSE queries
  /\ pc' = IF ~ IsValid(request.entries[i]) /\ todo' = {} THEN "error" ELSE "parse"
  /\ UNCHANGED <<world, request, search, found, rows, counted, before>>

\* _parse_query, _parse_submission: the error of an entry is raised only if it
\* is the last one and none was good.
ParseEntry ==
  LET i == Min(todo) IN
  /\ pc = "parse" /\ todo # {}
  /\ todo' = todo \ {i}
  /\ queries' = IF IsValid(request.entries[i]) THEN Append(queries, i) ELSE queries
  /\ pc' = IF queries' = <<>> /\ todo' = {} THEN "error" ELSE "parse"
  /\ UNCHANGED <<world, request, search, found, rows, counted, before>>

\* No entry at all: MissingParameterError.
NoEntries ==
  /\ pc = "parse" /\ todo = {} /\ queries = <<>>
  /\ pc' = "error"
  /\ UNCHANGED <<world, request, todo, queries, search, found, rows, counted, before>>

KindOf(i) == request.entries[queries[i]].kind

TooMany(chosen) ==
  \E k \in {"track", "fp"} :
    Cardinality({i \in DOMAIN chosen : request.entries[chosen[i]].kind = k}) > MaxQueries

\* A lookup that is no batch answers the first entry only.
Parsed ==
  LET chosen == IF request.kind = "lookup" /\ ~ request.batch THEN <<Head(queries)>> ELSE queries IN
  /\ pc = "parse" /\ todo = {} /\ queries # <<>>
  /\ queries' = chosen
  /\ pc' = IF request.kind = "submit" THEN "insert" ELSE IF TooMany(chosen) THEN "error" ELSE "query"
  /\ UNCHANGED <<world, request, todo, search, found, rows, counted, before>>

-----------------------------------------------------------------------------
(* Submissions: one transaction *)

RowsOf(entry) == IF entry.mbids > 0 THEN entry.mbids ELSE IF entry.other THEN 1 ELSE 0

\* A row for each MBID, or one without; none if there is nothing but the
\* fingerprint.
Insert ==
  LET i == Len(found) + 1 IN
  /\ pc = "insert" /\ i <= Len(queries)
  /\ rows' = rows \o [n \in 1 .. RowsOf(request.entries[queries[i]]) |-> queries[i]]
  /\ found' = Append(found, <<>>)
  /\ UNCHANGED <<world, request, todo, queries, search, counted, pc, before>>

CommitRows ==
  /\ pc = "insert" /\ Len(found) = Len(queries)
  /\ pc' = "answered"
  /\ UNCHANGED <<world, request, todo, queries, search, found, rows, counted, before>>

\* The database fails: InternalError, and the session is rolled back.
InsertFails ==
  /\ pc = "insert"
  /\ pc' = "failed" /\ rows' = <<>>
  /\ UNCHANGED <<world, request, todo, queries, search, found, counted, before>>

-----------------------------------------------------------------------------
(* Lookup by track id: resolve_track_gid *)

Current == request.entries[queries[Len(found) + 1]]

\* Steps of a request leave the rest alone.
SearchStep(next, s) ==
  /\ pc' = next /\ search' = s
  /\ UNCHANGED <<world, request, todo, queries, rows, counted>>

Matched(matches) ==
  /\ found' = Append(found, matches)
  /\ SearchStep("query", NoSearch)
  /\ UNCHANGED before

AsksTrack == pc = "query" /\ Len(found) < Len(queries) /\ Current.kind = "track"

ReadTrack ==
  /\ AsksTrack /\ Current.track \in Tracks
  /\ SearchStep("resolve", [NoSearch EXCEPT !.to = new_id[Current.track]])
  /\ UNCHANGED <<found, before>>

\* A well-formed id that no track has.
NoSuchTrack == AsksTrack /\ Current.track \notin Tracks /\ Matched(<<>>)

\* The track it was merged into has a row of its own.
ResolveTrack ==
  /\ pc = "resolve"
  /\ Matched(<<[id |-> 0, track |-> search.to, score |-> 1000]>>)

-----------------------------------------------------------------------------
(* Searching *)

Fast == request.kind = "lookup"

Begin(next) ==
  /\ pc = "query" /\ Len(found) < Len(queries) /\ Current.kind = "fp"
  /\ SearchStep(next, NoSearch)
  /\ UNCHANGED <<found, before>>

\* search() chooses by configuration.  Without an fpstore, fast searches
\* connect to the index and do not ask it anything: they find nothing.
SearchStarts ==
  \/ request.fpstore /\ Begin("fpstore")
  \/ ~ request.fpstore /\ ~ Fast /\ Begin("maxid")
  \/ ~ request.fpstore /\ Fast /\ Begin("nothing")

NothingFound == pc = "nothing" /\ Matched(<<>>)

\* fpstore.search: the ids and scores it knows (external: it may lag
\* behind), a timeout, which a fast search takes for no results, or an error.
FpstoreAnswers ==
  /\ pc = "fpstore"
  /\ \E copied \in SUBSET stored :
       LET known == {f \in copied : catalog.score[f] > MinScore}
           best == {f \in known : Cardinality({g \in known : catalog.score[g] > catalog.score[f]})
                                    < MaxResults}
           ids == CHOOSE s \in SUBSET best : Cardinality(s) = Min({MaxResults, Cardinality(best)})
       IN IF ids = {} THEN Matched(<<>>)
          ELSE /\ SearchStep("database", [NoSearch EXCEPT !.ids = ids])
               /\ UNCHANGED <<found, before>>

Fails ==
  /\ SearchStep("failed", NoSearch)
  /\ UNCHANGED <<found, before>>

FpstoreTimesOut == pc = "fpstore" /\ Fast /\ Matched(<<>>)

\* The fpstore, the index or the database answers with an error, or there is no
\* connection to it.
SearchFails == pc \in {"fpstore", "maxid", "nothing", "index", "database"} /\ Fails

\* The highest id of the index is read before the index is searched: what is
\* indexed in between is found twice, what is not is found in the database.
ReadMaxId ==
  /\ pc = "maxid"
  /\ SearchStep("index", [NoSearch EXCEPT !.max = maxDoc])
  /\ before' = {f \in stored : f > maxDoc \/ f \in indexed}
  /\ UNCHANGED found

\* Candidates by the terms in common, cut relative to the best and in number.
Candidates(ids) ==
  LET hits == {f \in ids : catalog.terms[f] > 0}
      best == Max({catalog.terms[f] : f \in hits} \union {0})
      good == {f \in hits : catalog.terms[f] * 100 > best * MinPct}
      Ahead(f) == {g \in good : \/ catalog.terms[g] > catalog.terms[f]
                                \/ catalog.terms[g] = catalog.terms[f] /\ g < f}
  IN {f \in good : Cardinality(Ahead(f)) < MaxCandidates}

SearchIndex ==
  /\ pc = "index"
  /\ SearchStep("database", [NoSearch EXCEPT !.max = search.max, !.ids = Candidates(indexed)])
  /\ UNCHANGED <<found, before>>

\* The highest id is read when the index has been searched.
NotIndexedLate == {f \in stored : f > maxDoc /\ catalog.terms[f] > 0}

\* The condition of _search_database
NotIndexed == {f \in stored : f > search.max /\ catalog.terms[f] > 0}

Condition == search.ids \union (IF request.fpstore THEN {} ELSE NotIndexed)

\* ORDER BY score DESC, id
Better ==
  {p \in Fps \X Fps : \/ catalog.score[p[1]] > catalog.score[p[2]]
                      \/ catalog.score[p[1]] = catalog.score[p[2]] /\ p[1] < p[2]}

\* The elements of S in the order R, which is strict and total on S.
InOrder(S, R) ==
  [n \in 1 .. Cardinality(S) |-> CHOOSE x \in S : Cardinality({y \in S : <<y, x>> \in R}) = n - 1]

\* A lookup has a limit.
Ranked(ids) ==
  LET ordered == InOrder(ids, Better)
      size == IF Fast THEN Min({MaxResults, Cardinality(ids)}) ELSE Cardinality(ids)
  IN [n \in 1 .. size |-> [id |-> ordered[n], track |-> track[ordered[n]],
                           score |-> catalog.score[ordered[n]]]]

\* _create_search_query, with the length condition; the fpstore's own scores
\* replace the constant one.
SearchDatabase ==
  /\ pc = "database"
  /\ Matched(Ranked({f \in Condition \intersect stored :
                       f \in catalog.near /\ catalog.score[f] > MinScore}))

\* statement_timeout cancels the query of a lookup: no results.
StatementTimeout == pc = "database" /\ Fast /\ Matched(<<>>)

-----------------------------------------------------------------------------
(* The answer *)

\* _inject_results: the first match of a track counts.
Results(matches) ==
  LET seen(n) == \E m \in 1 .. n - 1 : matches[m].track = matches[n].track
      firsts == {n \in DOMAIN matches : ~ seen(n)}
      order == InOrder(firsts, {p \in firsts \X firsts : p[1] < p[2]})
  IN [k \in 1 .. Cardinality(firsts) |-> matches[order[k]]]

\* One lookup is counted for each query, a hit or a miss.
Respond ==
  /\ pc = "query" /\ Len(found) = Len(queries)
  /\ pc' = "answered"
  /\ found' = IF Fast THEN [i \in DOMAIN found |-> Results(found[i])] ELSE found
  /\ counted' = IF ~ Fast THEN counted
                ELSE [hits |-> Cardinality({i \in DOMAIN found : found[i] # <<>>}),
                      misses |-> Cardinality({i \in DOMAIN found : found[i] = <<>>})]
  /\ UNCHANGED <<world, request, todo, queries, search, rows, before>>

-----------------------------------------------------------------------------
(* Meanwhile *)

Searching == pc \in {"maxid", "index", "database", "fpstore", "resolve"}

Import ==
  /\ Searching
  /\ \E f \in Fps \ stored : stored' = stored \union {f}
  /\ UNCHANGED <<catalog, track, new_id, indexed, maxDoc, merges, request, todo, queries, search,
                 found, rows, counted, pc, before>>

\* update_fingerprint_index: rows above max_document_id, in id order.  It has
\* read them in a snapshot: one that was committed since may be left out, and
\* one that is committed below max_document_id is never indexed.
IndexUpdate ==
  /\ Searching
  /\ \E read \in SUBSET {f \in stored : f > maxDoc} :
       /\ read # {}
       /\ indexed' = indexed \union read
       /\ maxDoc' = Max(read)
  /\ UNCHANGED <<catalog, track, new_id, stored, merges, request, todo, queries, search, found,
                 rows, counted, pc, before>>

\* merge_tracks: fingerprints and earlier redirects follow.
MergeTracks(t, u) ==
  /\ Searching /\ merges < MaxMerges
  /\ t # u /\ new_id[t] = t /\ new_id[u] = u
  /\ track' = [f \in Fps |-> IF track[f] = t THEN u ELSE track[f]]
  /\ new_id' = [s \in Tracks |-> IF new_id[s] = t THEN u ELSE new_id[s]]
  /\ merges' = merges + 1
  /\ UNCHANGED <<catalog, stored, indexed, maxDoc, request, todo, queries, search, found, rows,
                 counted, pc, before>>

LookupsNext ==
  \/ ParseEntry \/ NoEntries \/ Parsed
  \/ Insert \/ CommitRows \/ InsertFails
  \/ ReadTrack \/ NoSuchTrack \/ ResolveTrack
  \/ SearchStarts \/ NothingFound
  \/ FpstoreAnswers \/ FpstoreTimesOut \/ SearchFails
  \/ ReadMaxId \/ SearchIndex \/ SearchDatabase \/ StatementTimeout
  \/ Respond
  \/ Import \/ IndexUpdate \/ \E t, u \in Tracks : MergeTracks(t, u)

LookupsSpec == LookupsInit /\ [][LookupsNext]_lvars

-----------------------------------------------------------------------------
(* Properties *)

Valid == {i \in DOMAIN request.entries : IsValid(request.entries[i])}

AskedFor(i) == request.entries[queries[i]].track

\* The answer to a track id: a track that stands for it, or nothing.
Stands(matches, t) ==
  IF t \in Tracks THEN Len(matches) = 1 /\ new_id[matches[1].track] = new_id[t]
  ELSE matches = <<>>

(* A request is refused only if none of its entries is good, or too many are.
   What is answered is each good entry, in the order of their numbers (the
   first one, unless a batch was asked for).  A lookup lists a track once, with
   the best of its scores; a track that was asked for by its id is answered with
   one that stands for it, even when it is merged between the two queries, and
   with nothing only if there is no such track.  A submission stores the rows of
   all good entries, or none at all. *)
GoodEntriesServed ==
  /\ pc = "error" => Valid = {} \/ Cardinality(Valid) > MaxQueries
  /\ pc = "answered" =>
       /\ IF request.kind = "lookup" /\ ~ request.batch THEN queries = <<Min(Valid)>>
          ELSE /\ {queries[n] : n \in DOMAIN queries} = Valid
               /\ \A m, n \in DOMAIN queries : m < n => queries[m] < queries[n]
       /\ Len(found) = Len(queries)
       /\ request.kind = "lookup" =>
            \A i \in DOMAIN found, m, n \in 1 .. MaxResults :
              m < n /\ n <= Len(found[i]) => /\ found[i][m].track # found[i][n].track
                                            /\ found[i][m].score >= found[i][n].score
       /\ \A i \in DOMAIN found : KindOf(i) = "track" => Stands(found[i], AskedFor(i))
       /\ request.kind = "submit" =>
            \A i \in DOMAIN request.entries :
              Cardinality({n \in DOMAIN rows : rows[n] = i})
                = IF i \in Valid THEN RowsOf(request.entries[i]) ELSE 0
  /\ pc \in {"error", "failed"} => rows = <<>>

\* Fingerprints like f that the index holds and that may keep f out.
Crowd(f) == {g \in Fps \ {f} : catalog.terms[g] >= catalog.terms[f]}

Beaten(f) == \E g \in Fps : catalog.terms[f] * 100 <= catalog.terms[g] * MinPct

(* The importer finds every fingerprint that was there when it began to search
   and is similar enough, be it in the index, not there yet or on its way,
   although ids are committed out of order: unless the index had passed over it
   by then, has as many candidates with as many terms, or one with far more of
   them. *)
NoneBetween ==
  pc = "answered" /\ request.kind = "import" =>
    \A f \in before :
      f \in catalog.near /\ catalog.score[f] > MinScore /\ catalog.terms[f] > 0 =>
        \/ \E n \in DOMAIN found[1] : found[1][n].id = f
        \/ Cardinality(Crowd(f)) >= MaxCandidates \/ Beaten(f)

-----------------------------------------------------------------------------
(* The inductive invariant behind them *)

Queried == {queries[n] : n \in DOMAIN queries}

Done == {queries[n] : n \in DOMAIN found}

Match == [id : Nat, track : Tracks, score : Nat]

\* A track that others were merged into was not merged itself.
WorldSound ==
  /\ request \in Requests /\ catalog \in Catalogs
  /\ track \in [Fps -> Tracks] /\ new_id \in [Tracks -> Tracks]
  /\ \A t \in Tracks : new_id[new_id[t]] = new_id[t]
  /\ stored \subseteq Fps /\ indexed \subseteq stored /\ before \subseteq stored
  /\ maxDoc \in Nat

\* The queries are the good entries up to where the parser is.
QueriesSound ==
  /\ todo \subseteq DOMAIN request.entries
  /\ queries \in Seq(Valid)
  /\ \A m, n \in DOMAIN queries : m < n => queries[m] < queries[n]
  /\ pc = "parse" => Queried = Valid \ todo /\ \A i \in Queried, j \in todo : i < j
  /\ pc = "error" => Valid = {} \/ Cardinality(Valid) > MaxQueries
  /\ pc \notin {"parse", "error"} =>
       IF request.kind = "lookup" /\ ~ request.batch THEN queries = <<Min(Valid)>>
       ELSE Queried = Valid

\* Each step is taken for a request, and a query, of its kind.
StepsSound ==
  /\ request.kind = "submit" => pc \in {"parse", "insert", "answered", "failed", "error"}
  /\ request.kind # "submit" => pc # "insert"
  /\ request.kind = "import" => pc \notin {"resolve", "fpstore", "nothing"}
  /\ pc \in {"resolve", "fpstore", "maxid", "index", "database", "nothing"} =>
       /\ Len(found) < Len(queries)
       /\ (Current.kind = "track") <=> (pc = "resolve")
  /\ pc = "resolve" =>
       /\ Current.track \in Tracks /\ search.to \in Tracks
       /\ new_id[search.to] = new_id[Current.track]

\* What was found for each query: in order, and for a track the one that
\* stands for it.
FoundSound ==
  /\ found \in Seq(Seq(Match))
  /\ Len(found) <= Len(queries)
  /\ pc = "parse" => found = <<>>
  /\ pc = "answered" => Len(found) = Len(queries)
  /\ \A i \in DOMAIN found :
       /\ \A m, n \in DOMAIN found[i] : m < n =>
            /\ found[i][m].score >= found[i][n].score
            /\ pc = "answered" /\ request.kind = "lookup" => found[i][m].track # found[i][n].track
       /\ KindOf(i) = "track" => Stands(found[i], AskedFor(i))

\* The rows are those of the entries that were inserted.
RowsSound ==
  /\ rows \in Seq(Valid)
  /\ request.kind # "submit" \/ pc \notin {"insert", "answered"} => rows = <<>>
  /\ request.kind = "submit" /\ pc \in {"insert", "answered"} =>
       \A i \in DOMAIN request.entries :
         Cardinality({n \in DOMAIN rows : rows[n] = i})
           = IF i \in Done THEN RowsOf(request.entries[i]) ELSE 0

\* A fingerprint with terms in common that the importer may miss.
Missed(f) == Cardinality(Crowd(f)) >= MaxCandidates \/ Beaten(f)

\* What was there when the importer began is beyond the id it read, indexed,
\* among the candidates, or found.
SearchSound ==
  request.kind = "import" =>
    /\ pc = "index" =>
         search.max \in Nat /\ \A f \in before : f > search.max \/ f \in indexed
    /\ pc = "database" =>
         \A f \in before : catalog.terms[f] > 0 => f > search.max \/ f \in search.ids \/ Missed(f)
    /\ found # <<>> =>
         \A f \in before :
           f \in catalog.near /\ catalog.score[f] > MinScore /\ catalog.terms[f] > 0 =>
             (\E n \in DOMAIN found[1] : found[1][n].id = f) \/ Missed(f)

LookupsInv ==
  WorldSound /\ QueriesSound /\ StepsSound /\ FoundSound /\ RowsSound /\ SearchSound
=============================================================================
