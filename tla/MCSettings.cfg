SPECIFICATION Spec
CONSTANTS
  Id <- MCId
  Crtcs <- MCCrtcs
  Lists <- MCLists
  Legal <- MCLegal
  Reports <- MCReports
  Lacks = {}
  MaxCalls = 2
  MaxLost = 1
INVARIANTS TypeOK SetReadsBack ChangedModeShows
CHECK_DEADLOCK FALSE
