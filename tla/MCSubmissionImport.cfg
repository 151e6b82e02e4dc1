\* Two importers over four submissions, one fault anywhere.
CONSTANTS
  s1 = s1
  s2 = s2
  s3 = s3
  s4 = s4
  Subs = {s1, s2, s3, s4}
  Workers = {w1, w2}
  Audio <- MCAudio
  AudioOf <- MCAudioOf
  MbidOf <- MCMbidOf
  NullMbid = NullMbid
  NoMbid = NoMbid
  Terms <- MCTerms
  MaxCandidates = 1
  MinPct = 10
  Score <- MCScore
  Length <- MCLength
  Useless = {}
  MaxFp = 4
  MaxFaults = 1
SPECIFICATION Spec
SYMMETRY Symmetry
INVARIANTS
  TypeOK
  CountsExplained
  TrackTotals
  NoTwins
CHECK_DEADLOCK FALSE
