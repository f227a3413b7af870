SPECIFICATION MCFairSpec
CONSTANTS
  Conns <- MCConns
  CrtcSeq <- MCCrtcs
  Objects <- MCObjects
  Lists <- MCLists
  Asked <- MCAsked
  ConnArgs = {11, 12, 7}
  CrtcArgs = {1, 0, 11, 7}
  MaxFaults = 2
  MaxLeak = 1
  MaxChanges = 1
INVARIANTS  ZeroMeansSet
PROPERTY RetryEnds
CHECK_DEADLOCK FALSE
