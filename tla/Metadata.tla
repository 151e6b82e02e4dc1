------------------------------ MODULE Metadata ------------------------------
(***************************************************************************)
(* Metadata of a lookup's results (inject_metadata of api/v2/__init__.py,  *)
(* data/musicbrainz.py and lookup_meta of data/meta.py).  The rows of the  *)
(* MusicBrainz replica are read by several queries, each with a snapshot   *)
(* of its own, while replication merges releases and release groups; they  *)
(* are then grouped into a tree of dictionaries, which "compress" thins    *)
(* out by leaving out what an element has in common with the one above it. *)
(*                                                                         *)
(* Lists are sets, mediums are left out, and of the fields title and       *)
(* artists are kept; "more" stands for those that only releases have.      *)
(***************************************************************************)
EXTENDS Naturals, Sequences, FiniteSetsExt, Functions, TLC

CONSTANTS
  Hits,      \* AcoustID tracks that the lookup found
  Recordings, Releases, Groups, MbTracks,  \* of MusicBrainz
  UserMetas,    \* rows of table meta
  Shapes,       \* what MusicBrainz may hold at first: records as mb below
  Links,        \* what is known of the results: records as links below
  Columns,      \* sets of columns that a row of meta may have
  Metas,        \* values of the parameter meta, as sets of words
  MaxEdits      \* bound: merges that replication brings

Things == Recordings \union Releases \union Groups \union MbTracks
Unknown == "unknown"  \* an MBID that MusicBrainz does not have
Looks == {"a", "b"}

VARIABLES
  mb,       \* [known, rec, rel, group, gone]: MusicBrainz
  look,     \* title and artist credit of each of its things
  timed,    \* tracks whose length it knows
  links,    \* [mbids, metas]: track_mbid and track_meta of each result
  fields,   \* columns of each row of meta that are not null
  call,     \* the request
  edits     \* history: merges between the queries

mvars == <<mb, look, timed, links, fields, call, edits>>

\* MBIDs of the results
Wanted == UNION Range(links.mbids)

NoCall == [pc |-> "idle", meta |-> {}, rows |-> {}, missing |-> {}, answer |-> <<>>, plain |-> <<>>]

\* What a request cannot tell apart is left at one value.
MetadataInit ==
  /\ mb \in Shapes /\ links \in Links
  /\ call \in {[NoCall EXCEPT !.pc = "rows", !.meta = m] : m \in Metas}
  /\ look \in IF Wanted = {Unknown} THEN {[x \in Things |-> "a"]} ELSE [Things -> Looks]
  /\ timed \in {MbTracks} \union (IF "m2" \in call.meta THEN {MbTracks \ {t} : t \in MbTracks} ELSE {})
  /\ fields \in [UserMetas -> IF "usermeta" \in call.meta /\ Wanted = {Unknown} THEN Columns ELSE {{}}]
  /\ edits = 0

-----------------------------------------------------------------------------
(* Elements: dictionaries *)

Drop(el, k) == Restrict(el, DOMAIN el \ {k})

\* el.get(k)
Value(el, k) == IF k \in DOMAIN el THEN el[k] ELSE "null"

\* Leave a field out that the element above has, be it the same or not.
StripAny(el, above, k) == IF k \in DOMAIN el /\ k \in DOMAIN above THEN Drop(el, k) ELSE el

\* Leave a field out that has the same value in the element above.
Strip(el, above, k) ==
  IF k \in DOMAIN el /\ el[k] = Value(above, k) THEN Drop(el, k) ELSE el

\* Fields of a row: those of MusicBrainz are never null, those of a submitted
\* row come from its columns.
TitleOf(kind, x) ==
  IF x \in Things THEN look[x]
  ELSE LET column == IF kind \in {"recording", "track"} THEN "track" ELSE "album" IN
       IF column \in fields[x] THEN column ELSE "null"

ArtistsOf(kind, x) ==
  IF x \in Things THEN look[x]
  ELSE LET column == IF kind \in {"recording", "track"} THEN "artist" ELSE "album_artist" IN
       IF column \in fields[x] THEN column ELSE "[]"

\* extract_recording, extract_release and extract_release_group
Extract(kind, x, onlyId) ==
  IF onlyId THEN "id" :> x
  ELSE "id" :> x
       @@ "title" :> (IF TitleOf(kind, x) = "null" THEN "" ELSE TitleOf(kind, x))
       @@ (IF ArtistsOf(kind, x) # "[]" THEN "artists" :> ArtistsOf(kind, x) ELSE <<>>)
       @@ (IF kind = "release" THEN "more" :> "" ELSE <<>>)

TrackElement(x) == "id" :> x @@ "title" :> TitleOf("track", x) @@ "artists" :> ArtistsOf("track", x)

Column(rows, name) == {row[name] : row \in rows}
Having(rows, name, x) == {row \in rows : row[name] = x}

\* The tracks of all rows below each release.
ReleaseElementsUngrouped(meta, rows) ==
  {LET release == Extract("release", x, "releaseids" \in meta)
       tracks == {TrackElement(t) : t \in Column(rows, "track")}
   IN IF "tracks" \notin meta THEN release
      ELSE "tracks" :> (IF "compress" \in meta
                        THEN {Strip(t, release, "artists") : t \in tracks} ELSE tracks)
           @@ release
    : x \in Column(rows, "release")}

\* _inject_releases_internal
ReleaseElements(meta, rows) ==
  {LET release == Extract("release", x, "releaseids" \in meta)
       tracks == {TrackElement(t) : t \in Column(Having(rows, "release", x), "track")}
   IN IF "tracks" \notin meta THEN release
      ELSE "tracks" :> (IF "compress" \in meta
                        THEN {Strip(t, release, "artists") : t \in tracks} ELSE tracks)
           @@ release
    : x \in Column(rows, "release")}

\* _inject_release_groups_internal
GroupElements(meta, rows) ==
  {LET group == Extract("group", x, "releasegroupids" \in meta)
       releases == ReleaseElements(meta, Having(rows, "group", x))
   IN IF meta \intersect {"releases", "releaseids"} = {} THEN group
      ELSE "releases" :> (IF "compress" \in meta
             THEN {Strip(Strip(r, group, "artists"), group, "title") : r \in releases}
             ELSE releases)
           @@ group
    : x \in Column(rows, "group")}

\* The loop over the tracks below a recording.
StripTitles(release, recording) ==
  IF "tracks" \notin DOMAIN release THEN release
  ELSE [release EXCEPT !["tracks"] = {Strip(t, recording, "title") : t \in @}]

\* A recording's element.  The statement that compares the artists of a release
\* group stands behind the loop over the groups: it sees the last one only.
RecordingElement(meta, rows, x, last) ==
  LET recording == Extract("recording", x, "recordingids" \in meta)
      mine == Having(rows, "recording", x)
      compress == "compress" \in meta
      Titles(el) == IF compress /\ "releases" \in DOMAIN el
                    THEN [el EXCEPT !["releases"] = {StripTitles(r, recording) : r \in @}] ELSE el
      Last(el) == IF compress /\ el["id"] = last THEN Strip(el, recording, "artists") ELSE el
      Releases1 == {StripTitles(r, recording) : r \in ReleaseElements(meta, mine)}
  IN IF meta \intersect {"releasegroups", "releasegroupids"} # {}
     THEN "releasegroups" :> {Last(Titles(g)) : g \in GroupElements(meta, mine)} @@ recording
     ELSE IF meta \intersect {"releases", "releaseids"} # {}
     THEN "releases" :> (IF compress THEN {Strip(r, recording, "artists") : r \in Releases1}
                         ELSE ReleaseElements(meta, mine))
          @@ recording
     ELSE recording

\* What is sent of a submitted row: no id but those of the tracks, no empty
\* title and no element that has nothing left.
NoTitle(el) == IF Value(el, "title") = "" THEN Drop(el, "title") ELSE el

Cleaned(els) == {NoTitle(Drop(el, "id")) : el \in els} \ {<<>>}

WithParts(el, k, parts) == IF parts = {} THEN Drop(el, k) ELSE [el EXCEPT ![k] = parts]

CleanReleases(el) ==
  IF "releases" \in DOMAIN el THEN WithParts(el, "releases", Cleaned(el["releases"])) ELSE el

CleanUser(recording) ==
  LET bare == CleanReleases(NoTitle(Drop(recording, "id"))) IN
  IF "releasegroups" \notin DOMAIN bare THEN bare
  ELSE WithParts(bare, "releasegroups", Cleaned({CleanReleases(g) : g \in bare["releasegroups"]}))

-----------------------------------------------------------------------------
(* The queries *)

Branch(meta) ==
  IF "m2" \in meta THEN "m2"
  ELSE IF meta \intersect {"recordings", "recordingids", "isrcs"} # {} THEN "recordings"
  ELSE IF meta \intersect {"releasegroups", "releasegroupids"} # {} THEN "releasegroups"
  ELSE IF meta \intersect {"releases", "releaseids"} # {} THEN "releases"
  ELSE "none"

LoadsGroups(meta) ==
  CASE Branch(meta) = "m2" -> FALSE
    [] Branch(meta) = "recordings" -> meta \intersect {"releasegroups", "releasegroupids"} # {}
    [] OTHER -> TRUE

LoadsReleases(meta) ==
  \/ Branch(meta) # "recordings" \/ LoadsGroups(meta)
  \/ meta \intersect {"releases", "releaseids"} # {}

\* The joins of the main query: a recording without tracks has no row when
\* releases are asked for.
Rows(wanted, releases) ==
  IF releases
  THEN {[recording |-> mb.rec[t], track |-> t, release |-> mb.rel[t], group |-> mb.group[mb.rel[t]]]
          : t \in {u \in MbTracks : mb.rec[u] \in wanted}}
  ELSE {[recording |-> r] : r \in wanted \intersect mb.known}

QueryRows ==
  /\ call.pc = "rows" /\ Branch(call.meta) # "none"
  /\ call' = [call EXCEPT !.rows = Rows(Wanted, LoadsReleases(call.meta)),
       !.pc = IF LoadsReleases(call.meta) THEN "releases" ELSE "build"]
  /\ UNCHANGED <<mb, look, timed, links, fields, edits>>

\* meta words that name no branch: nothing is read.
NothingAsked ==
  /\ call.pc = "rows" /\ Branch(call.meta) = "none"
  /\ call' = [call EXCEPT !.pc = "answered"]
  /\ UNCHANGED <<mb, look, timed, links, fields, edits>>

\* releases[r_id] and release_groups[rg_id]: a KeyError when what the first
\* query named is not there any more.
Load(pc, name, next) ==
  /\ call.pc = pc
  /\ call' = IF Column(call.rows, name) \intersect mb.gone = {}
             THEN [call EXCEPT !.pc = next] ELSE [call EXCEPT !.pc = "failed"]
  /\ UNCHANGED <<mb, look, timed, links, fields, edits>>

LoadReleases == Load("releases", "release", IF LoadsGroups(call.meta) THEN "groups" ELSE "build")
LoadGroups == Load("groups", "group", "build")

-----------------------------------------------------------------------------
(* The answer *)

UserRows ==
  {[recording |-> u, track |-> u, release |-> u, group |-> u] : u \in UNION Range(links.metas)}

\* inject_recordings: every known MBID has an element, filled in when there is
\* metadata; submitted metadata is used when there is none for any result.
RecordingAnswer(meta, rows, last) ==
  [q \in Hits |->
     "recordings" :>
       ({IF r \in Column(rows, "recording") THEN RecordingElement(meta, rows, r, last[r])
         ELSE "id" :> r : r \in links.mbids[q]}
        \union
        (IF "usermeta" \in meta /\ rows = {}
         THEN {CleanUser(RecordingElement(meta, UserRows, u, u)) : u \in links.metas[q]} ELSE {}))]

M2Answer(rows) ==
  [q \in Hits |->
     "recordings" :>
       {"id" :> r @@ (IF r \notin Column(rows, "recording") THEN <<>>
                      ELSE "tracks" :> {"id" :> row.release @@ Drop(TrackElement(row.track), "id")
                                          : row \in Having(rows, "recording", r)})
        : r \in links.mbids[q]}]

\* inject_releases and inject_release_groups: straight below the result, if it
\* has any MBID.
ReleaseAnswer(meta, rows, k) ==
  [q \in Hits |->
     LET mine == {row \in rows : row.recording \in links.mbids[q]} IN
     IF links.mbids[q] = {} THEN <<>>
     ELSE k :> (IF k = "releases" THEN ReleaseElements(meta, mine) ELSE GroupElements(meta, mine))]

Answer(meta, rows, last) ==
  CASE Branch(meta) = "m2" -> M2Answer(rows)
    [] Branch(meta) = "recordings" -> RecordingAnswer(meta, rows, last)
    [] OTHER -> ReleaseAnswer(meta, rows, Branch(meta))

\* Which release group of a recording comes last is up to the database.
LastGroups(rows) ==
  {last \in [Recordings \union {Unknown} -> Groups] :
     \A r \in Column(rows, "recording") : last[r] \in Column(Having(rows, "recording", r), "group")}

\* m2 converts the length of each track, and fails if there is one without.
Build ==
  /\ call.pc = "build"
  /\ \E last \in IF LoadsGroups(call.meta) THEN LastGroups(call.rows)
                 ELSE {[r \in Recordings \union {Unknown} |-> "null"]} :
       call' = IF Branch(call.meta) = "m2" /\ ~ Column(call.rows, "track") \subseteq timed
               THEN [call EXCEPT !.pc = "failed"]
               ELSE [call EXCEPT !.pc = "answered",
                       !.missing = Wanted \ Column(call.rows, "recording"),
                       !.answer = Answer(call.meta, call.rows, last),
                       !.plain = Answer(call.meta \ {"compress"}, call.rows, last)]
  /\ UNCHANGED <<mb, look, timed, links, fields, edits>>

-----------------------------------------------------------------------------
(* MusicBrainz: external *)

Merge(kinds, who, x, y) ==
  /\ call.pc \in {"releases", "groups"} /\ edits < MaxEdits
  /\ {x, y} \subseteq kinds \ mb.gone /\ x # y
  /\ mb' = [mb EXCEPT ![who] = [z \in DOMAIN @ |-> IF @[z] = x THEN y ELSE @[z]],
                      !.gone = @ \union {x}]
  /\ edits' = edits + 1
  /\ UNCHANGED <<look, timed, links, fields, call>>

MergeReleases == \E x, y \in Releases : Merge(Releases, "rel", x, y)
MergeGroups == \E x, y \in Groups : Merge(Groups, "group", x, y)

MetadataNext ==
  \/ QueryRows \/ NothingAsked \/ LoadReleases \/ LoadGroups \/ Build
  \/ MergeReleases \/ MergeGroups

MetadataSpec == MetadataInit /\ [][MetadataNext]_mvars

-----------------------------------------------------------------------------
(* Properties *)

\* What the answer lists, from the top: the levels that were asked for.
Levels(meta) ==
  LET recordings == IF Branch(meta) = "recordings" THEN <<"recording">> ELSE <<>>
      groups == IF meta \intersect {"releasegroups", "releasegroupids"} # {} THEN <<"group">> ELSE <<>>
      releases == IF meta \intersect {"releases", "releaseids"} # {} THEN <<"release">> ELSE <<>>
      tracks == IF releases # <<>> /\ "tracks" \in meta THEN <<"track">> ELSE <<>>
  IN recordings \o groups \o releases \o tracks

Below(el) ==
  UNION {el[k] : k \in DOMAIN el \intersect {"recordings", "releasegroups", "releases", "tracks"}}

RECURSIVE Paths(_)
Paths(el) ==
  LET own == IF "id" \in DOMAIN el THEN <<el["id"]>> ELSE <<>> IN
  IF Below(el) = {} THEN {own}
  ELSE {own \o p : p \in UNION {Paths(e) : e \in Below(el)}}

(* The tree of an answer has the path of every row the main query found, from
   recording to track as far as asked, and no other: grouping loses and invents
   nothing, with "compress" and without, whatever the later queries met.  (A
   recording without metadata is listed alone.) *)
MetadataComplete ==
  call.pc = "answered" /\ Branch(call.meta) \notin {"m2", "none"} /\ "usermeta" \notin call.meta =>
    \A q \in Hits :
      LET levels == Levels(call.meta)
          mine == {row \in call.rows : row.recording \in links.mbids[q]}
          bare == IF Branch(call.meta) = "recordings"
                  THEN {<<r>> : r \in links.mbids[q] \ Column(mine, "recording")} ELSE {}
          expected == {[i \in DOMAIN levels |-> row[levels[i]]] : row \in mine} \union bare
      IN Paths(call.answer[q]) = IF expected = {} THEN {<<>>} ELSE expected

\* What a client reads of a compressed element: what is left out is what the
\* elements above say; a track takes its title from the recording.
Known(el, above) ==
  LET own == [k \in (DOMAIN el \union DOMAIN above) \intersect {"title", "artists"} |->
                IF k \in DOMAIN el THEN el[k] ELSE above[k]]
  IN own @@ Drop(Drop(el, "title"), "artists")

RECURSIVE Facts(_, _, _)
Facts(path, el, above) ==
  LET known == Known(el, above)
      here == path \o (IF "id" \in DOMAIN el THEN <<el["id"]>> ELSE <<>>)
      heading == IF Len(path) = 0 /\ "title" \in DOMAIN known THEN "top" :> known["title"]
                 ELSE IF "top" \in DOMAIN above THEN "top" :> above["top"] ELSE <<>>
      pass == Restrict(known, DOMAIN known \intersect {"title", "artists"}) @@ heading
      own == {<<here, k, known[k]>> : k \in DOMAIN known \intersect {"title", "artists"}}
      Child(k, e) == IF k = "tracks" /\ "title" \notin DOMAIN e /\ "top" \in DOMAIN pass
                     THEN Facts(here, "title" :> pass["top"] @@ e, pass) ELSE Facts(here, e, pass)
  IN own \union UNION {UNION {Child(k, e) : e \in el[k]}
        : k \in DOMAIN el \intersect {"recordings", "releasegroups", "releases", "tracks"}}

(* "compress" loses nothing: a client that reads what an element leaves out from
   the elements above it learns every title and artist that the full answer
   has, though the elements above are themselves stripped later on. *)
CompressLossless ==
  call.pc = "answered" /\ "compress" \in call.meta /\ "usermeta" \notin call.meta =>
    \A q \in Hits :
      Facts(<<>>, call.plain[q], <<>>) \subseteq Facts(<<>>, call.answer[q], <<>>)

=============================================================================
