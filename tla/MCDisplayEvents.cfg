SPECIFICATION FairSpec
CONSTANTS
  DrmThreads = {d1, d2}
  HdmiThreads = {h1, h2}
  MaxQueue = 1
  MaxChanges = 2
  MaxNoise = 1
  MaxStops = 1
  MaxThreads = 2
  MayFail = {"create", "open"}
INVARIANTS
  TypeOK
  ThreadReportCurrent
  HdcpReportCurrent
  ViewCurrent
  AtMostOneLateCallback
PROPERTY StopEndsThreads
