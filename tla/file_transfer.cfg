SPECIFICATION FairSpec
CONSTANTS
  Foreign = "server"
  ClientIds = {0, 1}
  ServerIds = {128}
  Sizes = {0, 3}
  chunk_size = 2
  MaxFiles = 2
  MaxHeld = 1
  MaxAsks = 1
  MaxStrays = 1
INVARIANTS
  TypeOK
  FileIntact
  SlotHasSender
PROPERTIES
  SuccessMeansWhole
  TransferEnds
CHECK_DEADLOCK FALSE
