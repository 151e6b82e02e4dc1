\* Every partition has aged out when a node bootstraps.
CONSTANTS
  Writers = {w1}
  Jobs = {j1}
  RETENTION_MONTHS = 1
  CREATE_AHEAD = 1
  LegacyFp = 1
  MaxFp = 3
  MaxMonth = 2
  Nodes = {n1}
  Limit = 1
  Chunk = 1
  Silent = {}
SPECIFICATION FeedSpec
PROPERTIES
  BootstrapResumable
