\* Two runs over one hash: a counter of a known application and one of an
\* application that the database does not have.  Two workers and an importer on
\* one track; A may become B, and B then C.
CONSTANTS
  Keys = {hit, ghost}
  Unknown = {ghost}
  Workers = {w1, w2}
  MaxLookups = 2
  MaxFaults = 1
  MaxOverlaps = 1
  t1 = t1
  A = A
  B = B
  C = C
  Linked <- MCLinked
  Tracks = {t1}
  Mbids = {A, B, C}
  Mergers = {w1, w2}
  Importers = {i1}
  None = None
  Unreleased = {C}
  BotExists = TRUE
  UnknownDays = 1
  MaxDay = 1
  MaxQueue = 1
  MaxEvents = 2
SPECIFICATION MCSpec
INVARIANTS
  TypeOK
  CountedOnce
  CountsConserved
  SourcesExplainCounts
PROPERTIES
  Drained
  DisabledAfterGrace
  EventuallyMerged
CHECK_DEADLOCK FALSE
