SPECIFICATION Spec
CONSTANTS
  Conn = {c1, c2}
  NoConn = NoConn
  Overlapping = FALSE
  Repeating = FALSE
  Info <- MCInfo
  CarRequests <- MCCarRequests
  PhoneStates <- MCPhoneStates
  PhoneResponses = {"Accepted", "Rejected"}
  MaxCommands = 2
  MaxPhoneModes = 1
  CarMayFail = TRUE
SYMMETRY MCSymmetry
INVARIANTS
  TypeOK
  IdleCarInSync
  InflightMatchesProxies
PROPERTIES
  ScreenAfterModes
CHECK_DEADLOCK FALSE
