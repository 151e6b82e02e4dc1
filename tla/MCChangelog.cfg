\* Two importers race for the advisory lock while two maintenance runs
\* overlap over four months: one month of retention, one month of runway.
CONSTANTS
  Writers = {w1, w2}
  Jobs = {j1, j2}
  RETENTION_MONTHS = 1
  CREATE_AHEAD = 1
  LegacyFp = 0
  MaxFp = 2
  MaxMonth = 3
SPECIFICATION Spec
SYMMETRY Symmetry
INVARIANTS
  TypeOK
  MonthsFollowIds
  WindowKept
  ChangelogInv
PROPERTIES
  CommitOrder
  LossRecorded
  WatermarkForward
  ImplementsLog
