SPECIFICATION Spec
CONSTANTS
  feat = feat
  fix = fix
  s1 = s1
  s2 = s2
  here = here
  there = there
  w1 = w1
  w2 = w2
  w3 = w3
  c1 = c1
  Branches = {feat, fix}
  SlugOf <- OwnSlugs
  Writers = {w1, w2, w3}
  CloneOf <- TwoClones
  CiRuns = {c1}
  MaxWork = 2
  Strict = TRUE
  Faults = {"local", "push", "fetch", "write", "read"}
  None = None
SYMMETRY Alike
INVARIANT FreshAfterPush
PROPERTY NoFalseAlarm
CHECK_DEADLOCK FALSE
