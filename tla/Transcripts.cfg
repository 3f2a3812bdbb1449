SPECIFICATION Spec
CONSTANTS
  None = None
  MaxSafe = 9
  MaxRecords <- MCRecords
  m1 = m1
  m2 = m2
  t1 = t1
  t2 = t2
  Models = {m1}
  Tools = {t1}
  CodexRequests <- MCCodex
  CodexInherited <- MCInherited
  ClaudeStart <- MCClaude
  OpenCodeRequests <- MCOpenCode
  GeminiRequests <- MCGemini
  CursorRequests <- MCCursor
INVARIANTS PricedOnce CleanIsExact Accounted GapsAreTold
PROPERTY NeverForgets
CHECK_DEADLOCK FALSE
