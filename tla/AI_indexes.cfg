SPECIFICATION Spec
CONSTANTS
  s1 = s1
  s2 = s2
  g = g
  h = h
  c = c
  k1 = k1
  k2 = k2
  Snapshots = {s1, s2}
  Embedders = {g, h}
  Checkouts = {c}
  Commits = {k1, k2}
  Pages <- MCPages
  Asks <- MCAsks
  MaxRuns = 4
  MaxFaults = 2
CHECK_DEADLOCK FALSE
INVARIANTS BlobDescribesIndex RebuildRebuilds
