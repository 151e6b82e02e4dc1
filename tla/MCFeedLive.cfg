\* One importer, one maintenance worker and one node, under fairness.
CONSTANTS
  Writers = {w1}
  Jobs = {j1}
  RETENTION_MONTHS = 1
  CREATE_AHEAD = 1
  LegacyFp = 1
  MaxFp = 3
  MaxMonth = 2
  Nodes = {n1}
  Limit = 1
  Chunk = 1
  Silent = {}
SPECIFICATION FairFeedSpec
PROPERTIES
  NodesCatchUp
  RunwayRestored
