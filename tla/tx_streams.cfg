SPECIFICATION FairSpec
CONSTANTS
  Audio = {"main_audio"}
  Screens = {"screen"}
  Rivals = {"main_audio"}
  Order <- MCOrder
  MaxCalls = 4
  MaxTimeouts = 1
  MaxFailures = 1
INVARIANTS
  TypeOK
  GuardKeepsStream
  NoSpuriousConflict
PROPERTIES
  SessionSettles
CHECK_DEADLOCK FALSE
