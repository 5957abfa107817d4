SPECIFICATION FairSpec
CONSTANTS
  i1 = i1
  i2 = i2
  Instances = {i1, i2}
  Arms = {"repowise", "search", "codegraph"}
  Rides <- MCRides
  Embeds = {"repowise"}
  Plans <- MCPlans
  Options <- MCOptions
  MaxRuns <- MCMaxRuns
  MaxFaults = 1
CHECK_DEADLOCK FALSE
INVARIANTS MockRunNotGraded DiskBounded GradedMatchesCells NoCloneRace
PROPERTIES ScoredOnSound OkCellsKept RunEnds
