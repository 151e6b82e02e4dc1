\* Two nodes bootstrap, tail and copy each other while two importers commit
\* out of fingerprint-id order and retention runs.  Fingerprint 1 predates
\* the trigger, fingerprint 3 is silent, one row per batch and per chunk.
CONSTANTS
  Writers = {w1, w2}
  Jobs = {j1}
  RETENTION_MONTHS = 1
  CREATE_AHEAD = 0
  LegacyFp = 1
  MaxFp = 3
  MaxMonth = 2
  Nodes = {n1, n2}
  Limit = 1
  Chunk = 1
  Silent = {3}
SPECIFICATION FeedSpec
SYMMETRY Symmetry
INVARIANTS
  NoSilentLoss
  FeedInv
PROPERTIES
  CursorForward
