SPECIFICATION Spec
CONSTANTS
  P = P
  A = A
  B = B
  B2 = B2
  S = S
  C = C
  Files = {P, A, B, B2, S, C}
  Above <- Tree
  Sidechains = {S}
  AtStart = {P, A, B, S, C}
  Live = TRUE
INVARIANTS NothingCountedTwice
CHECK_DEADLOCK FALSE
