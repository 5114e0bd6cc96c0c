SPECIFICATION FairSpec
CONSTANTS
  MaxReq = 2
  Kind <- AllCommands
  max_inflight = 2
  Statuses = {"Ok"}
  Cancellers = {}
  MayClose = FALSE
  MayGiveUp = {}
PROPERTIES
  AnswerDelivered
CHECK_DEADLOCK FALSE
