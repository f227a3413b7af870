SPECIFICATION MCSpec
CONSTANTS
  Threads = {t1, t2}
  EnProps = {"HDMI_ENABLE", "HDCP_VERSION", "MODE", "RX_HDR_CAP", "CONTENT_PROTECTION", "EOTF"}
  Values = {1, 2}
  Sinks <- MCSinks
  Rates = {24, 25, 50, 60, 75, 120, 144, 240}
  EnvDir = "/user"
  AllowInvalid = TRUE
  Homes = {"/user", "/run"}
  NCrtcs = 3
  Lights = {0, 2}
  OtherModes = {1}
  MaxCalls = 2
  MaxChanges = 1
SYMMETRY Symmetry
CHECK_DEADLOCK FALSE
INVARIANTS
  TypeOK
  AnswersRight
  VblankExact
PROPERTY CallsEnd
