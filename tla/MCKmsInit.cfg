SPECIFICATION Spec
CONSTANTS
  Devices <- MCDevices
  MaxConnector = 3
  MaxCrtc = 3
  MaxPlane = 6
CHECK_DEADLOCK FALSE
INVARIANTS
  TypeOK
  AllReleased
  CrashNeedsFault
