----------------------------- MODULE MCRequests -----------------------------
(* What a request passes on its way: the rate limiter, the handlers of lookups
   and submissions with the search, the pool of clients of the legacy index,
   the metadata of the answer, and the forms of a fingerprint.  They share no
   state, so each is explored on its own: scene says which one moves. *)
EXTENDS RateLimiter, IndexPool, Lookups, Metadata, Fingerprints

VARIABLE scene

MCSymmetry == Permutations(Clients)

Call(secret, app) == [secret |-> secret, application |-> app, ip |-> "ip"]
MCIncoming == {Call(None, "app"), Call("wrong", None), Call("secret", None)}
MCLimit == [app |-> 2, ip |-> 1]
MCCatalogs ==
  [near : {Fps}, terms : [Fps -> {0, 1, 3}], score : {[f \in Fps |-> f]}] \union
  [near : {Fps \ {1}}, terms : [Fps -> {0, 1}], score : {[f \in Fps |-> 4 - f]}]

Entry(kind) == [kind |-> kind, track |-> 1, mbids |-> 0, other |-> FALSE]
Submission(n, other) == [kind |-> "submission", track |-> 0, mbids |-> n, other |-> other]
Request(kind, batch, fpstore, entries) ==
  [kind |-> kind, batch |-> batch, fpstore |-> fpstore, entries |-> entries]

MCRequestSet == {
  Request("lookup", FALSE, TRUE, -1 :> Entry("fp")),
  Request("lookup", TRUE, TRUE, 0 :> Entry("track") @@ 1 :> Entry("fp") @@ 2 :> Entry("bad")),
  Request("lookup", FALSE, FALSE, 0 :> Entry("bad") @@ 1 :> Entry("fp") @@ 2 :> Entry("fp")),
  Request("lookup", TRUE, FALSE, [i \in 0 .. 2 |-> Entry("track")]),
  Request("lookup", TRUE, FALSE, 1 :> Entry("track") @@ 2 :> [Entry("track") EXCEPT !.track = 9]),
  Request("lookup", TRUE, FALSE, 0 :> Entry("bad") @@ 2 :> Entry("bad")),
  Request("lookup", TRUE, FALSE, <<>>),
  Request("submit", FALSE, FALSE, -1 :> Submission(2, FALSE) @@ 0 :> Entry("bad")
                                  @@ 1 :> Submission(0, TRUE) @@ 2 :> Submission(0, FALSE)),
  Request("import", FALSE, FALSE, -1 :> Entry("fp"))}

LookupsOff ==
  /\ pc = "off" /\ request = 0 /\ catalog = 0 /\ track = 0 /\ new_id = 0 /\ stored = 0
  /\ indexed = 0 /\ maxDoc = 0 /\ todo = 0 /\ queries = 0 /\ search = 0 /\ found = 0 /\ rows = 0
  /\ counted = 0 /\ merges = 0 /\ before = 0

\* A lookup begins with all fingerprints, or with one that comes late.
MCStored == request.kind = "import" \/ stored \in {Fps, Fps \ {2}}

Shape(rec, rel, group) ==
  [known |-> Recordings, rec |-> rec, rel |-> rel, group |-> group, gone |-> {}]

\* One recording on two releases of different groups, with another recording on
\* one of them; or all tracks of one recording, on two releases of one group.
MCShapes == {
  Shape("t1" :> "r1" @@ "t2" :> "r1" @@ "t3" :> "r2",
        "t1" :> "x1" @@ "t2" :> "x2" @@ "t3" :> "x2", "x1" :> "g1" @@ "x2" :> "g2"),
  Shape([t \in MbTracks |-> "r1"],
        "t1" :> "x1" @@ "t2" :> "x1" @@ "t3" :> "x2", [x \in Releases |-> "g1"])}

MCLinks == {
  [mbids |-> "q1" :> {"r1", Unknown} @@ "q2" :> {"r1", "r2"},
   metas |-> [q \in Hits |-> UserMetas]],
  [mbids |-> "q1" :> {Unknown} @@ "q2" :> {}, metas |-> "q1" :> {"u1"} @@ "q2" :> {"u1", "u2"}]}

MCColumns == {{}, {"track", "artist"}, {"album"}, {"track", "album", "album_artist"}}

MCMetas == {
  {"recordings"}, {"m2"}, {"usermeta"},
  {"recordings", "releasegroups", "releases", "tracks", "compress"},
  {"recordings", "releases", "tracks", "compress"},
  {"recordingids", "releasegroupids", "releases", "tracks", "compress"},
  {"releasegroups", "releases", "tracks", "compress"},
  {"releaseids", "tracks"},
  {"recordings", "usermeta", "releasegroups", "releases", "tracks"},
  {"recordings", "usermeta", "releaseids", "compress"}}

MetadataOff ==
  /\ call = [pc |-> "off"] /\ mb = 0 /\ look = 0 /\ timed = 0 /\ links = 0 /\ fields = 0 /\ edits = 0

FingerprintsOff == form = "off" /\ original = 0 /\ value = 0 /\ spoilt = FALSE

MCInit ==
  /\ scene \in {"limiter", "pool", "lookups", "metadata", "fingerprints"}
  /\ LimiterInit /\ PoolInit
  /\ IF scene = "lookups" THEN LookupsInit /\ MCStored ELSE LookupsOff
  /\ IF scene = "metadata" THEN MetadataInit ELSE MetadataOff
  /\ IF scene = "fingerprints" THEN FingerprintsInit ELSE FingerprintsOff

MCNext ==
  /\ UNCHANGED scene
  /\ \/ scene = "limiter" /\ LimiterNext /\ UNCHANGED <<pvars, lvars, mvars, fvars>>
     \/ scene = "pool" /\ PoolNext /\ UNCHANGED <<rvars, lvars, mvars, fvars>>
     \/ scene = "lookups" /\ LookupsNext /\ UNCHANGED <<rvars, pvars, mvars, fvars>>
     \/ scene = "metadata" /\ MetadataNext /\ UNCHANGED <<rvars, pvars, lvars, fvars>>
     \/ scene = "fingerprints" /\ FingerprintsNext /\ UNCHANGED <<rvars, pvars, lvars, mvars>>

MCSpec == MCInit /\ [][MCNext]_<<scene, rvars, pvars, lvars, mvars, fvars>>
=============================================================================
