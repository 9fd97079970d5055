SPECIFICATION LiveSpec
CONSTANTS
  Prompts = {1, 2}
  Bare <- MCBare
  TaskIds = {1, 2}
  Tools = {x}
  NoTask = 0
  MaxSends = 2
  MaxText = 2
  MAX_CONSECUTIVE_ERRORS = 2
INVARIANTS
  CompletedIsFaithful
  StopHitsOwnTask
PROPERTIES
  CancelSticks
  StreamEnds
ACTION_CONSTRAINT Small
CHECK_DEADLOCK FALSE
