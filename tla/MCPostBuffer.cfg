SPECIFICATION FairSpec
CONSTANTS
  Threads = {t1, t2}
  Bufs = {b1, b2}
  Planes = {vd1}
  Modes = {1, 2}
  Window = 3
  NoOne = NoOne
  MaxCalls = 2
  MaxSignals = 1
CHECK_DEADLOCK FALSE
INVARIANTS
  TypeOK
  PlaneShowsOneCall
  MasterGivenUp
  DeniedForAReason
PROPERTY WaitEnds
