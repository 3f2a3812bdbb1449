SPECIFICATION FairSpec
CONSTANTS
  p1 = p1
  p2 = p2
  r1 = r1
  r2 = r2
  r3 = r3
  NoArtifact = NoArtifact
  PRs = {p1, p2}
  Requests = {r1, r2, r3}
  PrOf <- MCPrOf
  FaultSets <- AllOrNone
INVARIANTS OkIsDurable LosersLostTwice
PROPERTIES ImplementsBoard EveryRunEnds
CHECK_DEADLOCK FALSE
