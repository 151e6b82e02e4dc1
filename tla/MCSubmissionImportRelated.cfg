\* Two importers and the same audio twice, no fault.
CONSTANTS
  s1 = s1
  s2 = s2
  s3 = s3
  s4 = s4
  Subs = {s1, s2}
  Workers = {w1, w2}
  Audio <- MCAudio
  AudioOf <- MCAudioOf
  MbidOf <- MCMbidOf
  NullMbid = NullMbid
  NoMbid = NoMbid
  Terms <- MCTerms
  MaxCandidates = 1
  MinPct = 10
  Score <- MCScore
  Length <- MCLength
  Useless = {}
  MaxFp = 2
  MaxFaults = 0
SPECIFICATION Spec
INVARIANTS
  RelatedExcluded
CHECK_DEADLOCK FALSE
