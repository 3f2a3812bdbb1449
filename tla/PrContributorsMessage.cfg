SPECIFICATION MCSpec
CONSTANTS
  s1 = s1
  s2 = s2
  s3 = s3
  b1 = b1
  b2 = b2
  o1 = o1
  o2 = o2
  f = f
  ab = ab
  m1 = m1
  m2 = m2
  p1 = p1
  p2 = p2
  None = None
  Sessions = {s1, s2}
  Candidate <- Compound
  Branch = {b1, b2}
  SubjectOf <- MCSubjectOf
  TooShort = {}
  PatchId <- MCPatchId
  Names <- MCNames
  MayFail = FALSE
  Worktrees = {"w"}
  Branches = {"feat", "fix"}
  FirstBranch <- MCFirstBranch
  MaxCommits = 4
  MaxTurns = 5
  Words <- MCWords
  Openings <- MCOpenings
  MaxWords = 5
  Flags <- MCFlags
  RepoIs <- MCRepoIs
  Long <- MCLong
  Refspec <- MCRefspec
  Quoted <- MCQuoted
INVARIANTS MessageCreditIsUnclaimed
CHECK_DEADLOCK FALSE
