SPECIFICATION Spec
CONSTANTS
  None = None
  Tables <- MCTables
  Family <- MCFamily
  Routed = {"bedrock"}
  SourceVendor <- MCSourceVendor
  PathOf <- MCPathOf
  Touches <- MCTouches
  WholeTree = {}
  TypeCheck = "tsc"
  MaxTrivial = 1
  K = 2
  MaxGap = 2
  OmitsWrites = {"mini"}
  Decimals <- MCDecimals
  Finest = 6
  Residue = 1
  Day = 2
  WeekLong = 4
  Charged <- MCCharged
  Uncited <- MCUncited
  Views <- MCViews
  Sources <- MCSources
  Alphabet <- MCAlphabet
  Subagents <- MCSubagents
  Values <- MCValues
  Caps <- MCCaps
  Projects <- MCProjects
INVARIANTS FloorHolds SharesAddUp ComparisonsAreExact WasteIsSpent
  EvidenceIsTheLast LedgerNeverOverstates WeekCountsOnce
CHECK_DEADLOCK FALSE
