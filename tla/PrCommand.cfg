SPECIFICATION Spec
CONSTANTS
  r1 = r1
  r2 = r2
  up = up
  fork = fork
  A = A
  B = B
  None = None
  Runs = {r1, r2}
  PRs = {up, fork}
  RepoOf <- MCRepoOf
  NumberOf <- MCNumberOf
  Options <- MCOptions
SYMMETRY Symmetry
INVARIANT OutcomeIsTrue
PROPERTIES HintsAreTrue PublishesOnBoard
CHECK_DEADLOCK FALSE
