SPECIFICATION MCSpec
CONSTANTS
  Callers = {r1, r2}
  Incoming <- MCIncoming
  ClusterSecret = "secret"
  None = "none"
  OwnLimit = {}
  Limit <- MCLimit
  Steps = 2
  MaxLag = 1
  MaxLost = 1
  Users = {u1, u2}
  Clients = {k1, k2, k3}
  NoClient = NoClient
  MaxIdleClients = 1
  MaxUses = 3
  MaxFaults = 2
  Fps = {1, 2, 3}
  Tracks = {1, 2, 3}
  Catalogs <- MCCatalogs
  Requests <- MCRequestSet
  MinScore = 1
  MaxCandidates = 1
  MinPct = 40
  MaxResults = 2
  MaxQueries = 2
  MaxMerges = 2
  Hits = {"q1", "q2"}
  Recordings = {"r1", "r2"}
  Releases = {"x1", "x2"}
  Groups = {"g1", "g2"}
  MbTracks = {"t1", "t2", "t3"}
  UserMetas = {"u1", "u2"}
  Columns <- MCColumns
  Shapes <- MCShapes
  Links <- MCLinks
  Metas <- MCMetas
  MaxEdits = 1
  Width = 3
  QueryBits = 2
  Silence = 5
  Base = 2
  Version = 1
  MaxLen = 4
  Sizes = {0, 1, 2, 3}
  Starts = {0, 1, 2}
SYMMETRY MCSymmetry
INVARIANTS
  CountersExplained LimitKept
  PoolSound AnswersMatch OwnCommits
  GoodEntriesServed NoneBetween
  MetadataComplete CompressLossless
  FingerprintKept DerivedSound
CHECK_DEADLOCK FALSE
