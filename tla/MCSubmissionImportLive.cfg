\* Two importers and two faults, one submission with nothing to import.
CONSTANTS
  s1 = s1
  s2 = s2
  s3 = s3
  s4 = s4
  Subs = {s1, s2, s3}
  Workers = {w1, w2}
  Audio <- MCAudio
  AudioOf <- MCAudioOf
  MbidOf <- MCMbidOf
  NullMbid = NullMbid
  NoMbid = NoMbid
  Terms <- MCTerms
  MaxCandidates = 1
  MinPct = 10
  Score <- MCScore
  Length <- MCLength
  Useless = {s3}
  MaxFp = 4
  MaxFaults = 2
SPECIFICATION FairSpec
PROPERTIES
  EventuallyHandled
CHECK_DEADLOCK FALSE
