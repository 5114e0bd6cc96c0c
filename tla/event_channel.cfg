SPECIFICATION FairSpec
CONSTANTS
  MaxReq = 4
  Kind <- MCKind
  max_inflight = 2
  Statuses = {"Ok"}
  Cancellers = {"server"}
  MayClose = TRUE
  MayGiveUp = {0}
INVARIANTS
  TypeOK
  SlotsAligned
  NobodyForgotten
  SendNotified
PROPERTIES
  ImplementsService
  EndSettlesCalls
CHECK_DEADLOCK FALSE
