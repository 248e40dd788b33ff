SPECIFICATION Spec
CONSTANTS
  DayLen = 5
  Minute = 2
  Week = 2
  Drafts <- MCDrafts
  UserBlocks = {1}
  Lag = 2
  Horizon = 12
  MaxEvents = 1
  Gaps = {3}
INVARIANTS
  TypeOK
  StartedOnce
  CoversWindow
  StartsOnTime
  InProgressKept
PROPERTIES
  UnlockedByHand
  RecordedOnce
CHECK_DEADLOCK FALSE
