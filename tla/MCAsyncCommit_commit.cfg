SPECIFICATION FairSpec
CONSTANTS
  Objects <- MCObjects
  Properties <- MCProperties
  Values <- MCValues
  Half = 4
  StableUpTo = 3
  MaxItems = 4
INVARIANTS
  TypeOK
  WritesInBounds
  ArraysDecodeToList
  DedupeHalves
  LastSetWins
PROPERTIES CommitsAtOnce CommitReturns
