SPECIFICATION Spec
CONSTANTS
  Info <- MCInfo
  AccessoryRequests <- MCAccessoryRequests
  ControllerRequests <- MCControllerRequests
  MaxBorrows = 2
INVARIANTS
  TypeOK
  BorrowsCounted
  InfoRoundTrip
  ConstraintsHonoured
  RequestsAnswered
