SPECIFICATION Spec
CONSTANTS
  Prompts = {1, 2}
  Bare <- MCBare
  TaskIds = {1, 2}
  Tools = {x}
  NoTask = 0
  MaxSends = 2
  MaxText = 2
  MAX_CONSECUTIVE_ERRORS = 2
PROPERTIES
  NotDraggedBack
ACTION_CONSTRAINT Small
CHECK_DEADLOCK FALSE
