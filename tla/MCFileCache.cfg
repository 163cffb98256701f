SPECIFICATION Spec
CONSTANTS
  c1 = c1
  c2 = c2
  c3 = c3
  f1 = f1
  f2 = f2
  k1 = k1
  k2 = k2
  Calls <- MCCalls
  Files <- MCFiles
  Keys <- MCKeys
  Size = 2
  TTL = 0
  MaxInodes = 3
  MaxTime = 1
  MaxLinks = 1
SYMMETRY MCSymmetry
INVARIANTS CachedWhole ReadsWhole LinksHonoured TempsAccounted
