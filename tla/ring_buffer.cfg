SPECIFICATION Spec
CONSTANTS
  capacity = 4
  WordBits = 2
  WriteSizes = {2, 3}
  DefaultSizes = {2}
  AdvanceSizes = {1, 6}
  Requests = {2, 5}
  MaxTime = 8
INVARIANTS
  TypeOK
  TimelineHeard
  GapsAreTimeline
  GapSearchExact
CHECK_DEADLOCK FALSE
