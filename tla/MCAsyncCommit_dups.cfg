SPECIFICATION Spec
CONSTANTS
  Objects <- MCObjects
  Properties <- MCProperties
  Values <- MCValues
  Half = 4
  StableUpTo = 0
  MaxItems = 4
INVARIANT DuplicatesEliminated
