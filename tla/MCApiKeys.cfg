\* Two requests and two browsers on the web site, two greenlets of an API server.
CONSTANTS
  ann = ann
  g1 = g1
  o1 = o1
  Requests = {r1, r2}
  Browsers = {b1, b2}
  MbUsers = {ann}
  Googles = {g1}
  OpenIds = {o1}
  OpenIdOf <- MCOpenIdOf
  None = None
  MaxIds = 4
  MaxKeys = 4
  MaxTokens = 2
  MaxEvents = 5
  Servers = {s1}
  Handlers = {h1, h2}
  ServerOf <- MCServerOf
  TTL = 1
  MaxRequest = 1
  MaxLag = 1
  MaxApps = 3
SPECIFICATION MCSpec
INVARIANTS
  SessionsBelong
  OneAccountEach
  KeysHonoured
PROPERTIES
  TokensSpent
SYMMETRY Symmetry
CHECK_DEADLOCK FALSE
