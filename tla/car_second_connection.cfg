SPECIFICATION Spec
CONSTANTS
  Conn = {c1, c2}
  NoConn = NoConn
  Overlapping = TRUE
  Repeating = FALSE
  Info <- MCInfo
  CarRequests <- MCCarRequests
  PhoneStates <- MCPhoneStates
  PhoneResponses = {"Accepted", "Rejected"}
  MaxCommands = 2
  MaxPhoneModes = 1
  CarMayFail = TRUE
INVARIANT PeerHoldsLock
CHECK_DEADLOCK FALSE
