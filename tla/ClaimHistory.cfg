\* The daemon alone, and one block by hand.
SPECIFICATION Spec
CONSTANTS
  DayLen = 5
  Minute = 2
  Week = 2
  Drafts <- MCDrafts
  UserBlocks = {1}
  Lag = 2
  Horizon = 16
  MaxEvents = 1
  Gaps = {3}
PROPERTY
  OneRecordPerBlock
CHECK_DEADLOCK FALSE
