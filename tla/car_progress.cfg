SPECIFICATION FairSpec
CONSTANTS
  Conn = {c1}
  NoConn = NoConn
  Overlapping = FALSE
  Repeating = TRUE
  Info <- MCInfo
  CarRequests <- MCCarRequests
  PhoneStates <- MCPhoneStates
  PhoneResponses = {"Accepted", "Rejected"}
  MaxCommands = 2
  MaxPhoneModes = 1
  CarMayFail = TRUE
PROPERTIES
  PendingModesApplied
  CarConverges
CHECK_DEADLOCK FALSE
